---- MODULE Spec2Model ----
(***************************************************************************)
(* Verification model of the Battlesnake test platform backend             *)
(* (convex/battlesnake.ts, convex/auth.ts).                                *)
(*                                                                         *)
(* Three specifications share the variables below:                         *)
(*   SpecUrl  - the bot-URL normalisation of executeTestRun, as a pure     *)
(*              function applied to every short URL string;                *)
(*   SpecMod  - the tests table with its create / edit / moderation        *)
(*              mutations behind the session gates;                        *)
(*   SpecRun  - startTestRun and the non-atomic action executeTestRun,     *)
(*              one step per awaited query, fetch or mutation.             *)
(*                                                                         *)
(* A Convex query or mutation is one transaction: a handler that throws    *)
(* commits nothing.  An action is not a transaction: each ctx.runQuery,    *)
(* fetch and ctx.runMutation it awaits is a separate step.                 *)
(***************************************************************************)
EXTENDS Integers, Sequences, FiniteSets, Bags, TLC

VARIABLES
    now,            \* Date.now(), in abstract ticks
    userSessions,   \* table userSessions: token -> [userId, expiresAt]
    adminSessions,  \* table adminSessions: token -> [expiresAt]
    tests,          \* table tests: id -> test document
    nextTestId,     \* ids are never reused by the store
    lastResult,     \* outcome of the last query / mutation called
    runs,           \* table testRuns: id -> run document
    nextRunId,
    pc,             \* per invocation of executeTestRun: position in the handler
    loc,            \* per invocation: the handler's local variables
    posts,          \* per run: number of POSTs issued to the bot
    writes,         \* per run: number of updateTestRunResult commits
    urlIn,          \* SpecUrl: the botUrl under normalisation
    urlOut,         \* SpecUrl: what lines 1036-1048 make of it
    passIn,         \* SpecPass: a bot response and a test's expectedSafeMoves
    passOut,        \* SpecPass: what lines 1071-1128 make of them
    adminRateLimits,\* table adminRateLimits: clientId -> limiter document
    failLog,        \* per clientId: times of the failed sign-ins since the
                    \* last successful one (observation only, the newest 5)
    engineUsage,    \* per user: engineUsageCount, engineUsageResetMonth
    analysing,      \* analyseWithEngine past its mutation: the caller's token
    enginePosts,    \* number of POSTs issued to the engine
    collections,    \* table collections: id -> collection document
    nextCollectionId,
    collectionTests,\* table collectionTests: row [collectionId, testId]
                    \* -> number of rows that hold it
    loggedOut       \* the tokens whose session logout has deleted
                    \* (observation only)

vars == <<now, userSessions, adminSessions, tests, nextTestId, lastResult,
          runs, nextRunId, pc, loc, posts, writes, urlIn, urlOut,
          passIn, passOut,
          adminRateLimits, failLog, engineUsage, analysing, enginePosts,
          collections, nextCollectionId, collectionTests, loggedOut>>

\* the variables of analyseWithEngine in flight, and the collection tables
engineVars == <<analysing, enginePosts>>
collectionVars == <<collections, nextCollectionId, collectionTests>>

\* An optional field that is absent (JS undefined), per field type.
NoStr == "<undefined>"
NoNum == -1
NoSeq == <<"<undefined>">>

(***************************************************************************)
(* Bounds                                                                  *)
(***************************************************************************)
MaxUrlLen == 6
MaxTests == 1
MaxRuns == 1
MaxClock == 6
MaxLogins == 1
MaxExpectedLen == 2
MaxEnginePosts == 2
MaxCollections == 2
MaxRows == 2

(***************************************************************************)
(* Strings as sequences of characters                                      *)
(***************************************************************************)
UrlChars == {" ", "/", "m", "o", "v", "e"}
UrlStrings == UNION {[1..n -> UrlChars] : n \in 0..MaxUrlLen}

RECURSIVE TrimStart(_)
TrimStart(s) ==
    IF s # <<>> /\ Head(s) = " " THEN TrimStart(Tail(s)) ELSE s

RECURSIVE TrimEnd(_)
TrimEnd(s) ==
    IF s # <<>> /\ s[Len(s)] = " " THEN TrimEnd(SubSeq(s, 1, Len(s) - 1)) ELSE s

\* String.prototype.trim
Trim(s) == TrimEnd(TrimStart(s))

\* String.prototype.endsWith
EndsWith(s, suffix) ==
    /\ Len(s) >= Len(suffix)
    /\ SubSeq(s, Len(s) - Len(suffix) + 1, Len(s)) = suffix

MoveSuffix == <<"/", "m", "o", "v", "e">>

\* rawUrl.replace(/\/+$/, "")
RECURSIVE StripTrailingSlashes(_)
StripTrailingSlashes(s) ==
    IF s # <<>> /\ s[Len(s)] = "/"
    THEN StripTrailingSlashes(SubSeq(s, 1, Len(s) - 1))
    ELSE s

\* the endpoint with the endsWith test dropped
BotEndpointAlwaysAppend(rawUrl) == StripTrailingSlashes(rawUrl) \o MoveSuffix

\* normalizedUrl and endpoint of executeTestRun, from the trimmed rawUrl
BotEndpoint(rawUrl) ==
    LET normalizedUrl == StripTrailingSlashes(rawUrl)
    IN  IF EndsWith(normalizedUrl, MoveSuffix)
        THEN normalizedUrl
        ELSE normalizedUrl \o MoveSuffix

(***************************************************************************)
(* SpecUrl: lines 1036-1048 of executeTestRun on every short botUrl        *)
(***************************************************************************)
UrlPending == [kind |-> "pending", endpoint |-> NoSeq]

\* !rawUrl: "Bot URL is required."
UrlRejectBlank ==
    /\ urlOut.kind = "pending"
    /\ Trim(urlIn) = <<>>
    /\ urlOut' = [kind |-> "required", endpoint |-> NoSeq]
    /\ UNCHANGED <<now, userSessions, loggedOut, adminSessions, tests, nextTestId,
                   lastResult, runs, nextRunId, pc, loc, posts, writes, urlIn,
                   passIn, passOut,
                   adminRateLimits, failLog, engineUsage,
          engineVars, collectionVars>>

UrlResolveEndpoint ==
    /\ urlOut.kind = "pending"
    /\ Trim(urlIn) # <<>>
    /\ urlOut' = [kind |-> "endpoint", endpoint |-> BotEndpoint(Trim(urlIn))]
    /\ UNCHANGED <<now, userSessions, loggedOut, adminSessions, tests, nextTestId,
                   lastResult, runs, nextRunId, pc, loc, posts, writes, urlIn,
                   passIn, passOut,
                   adminRateLimits, failLog, engineUsage,
          engineVars, collectionVars>>

(***************************************************************************)
(* Users and the two session gates                                         *)
(***************************************************************************)
Users == {"u1", "u2", "a1", "s1"}

\* table users, reduced to the role flag the gates read
UsersTable == [u \in Users |-> [isAdmin |-> (u = "a1")]]

UserTokens == {"tok_u1", "tok_u2", "tok_a1", "tok_expired"}
AdminTokens == {"adm_ok", "adm_expired"}

\* a session that outlives every clock value of the model
FarFuture == MaxClock + 10

InitUserSessions ==
    [t \in {"tok_u1", "tok_u2", "tok_a1", "tok_s1", "tok_expired"} |->
        CASE t = "tok_u1" -> [userId |-> "u1", expiresAt |-> FarFuture]
          [] t = "tok_s1" -> [userId |-> "s1", expiresAt |-> FarFuture]
          [] t = "tok_u2" -> [userId |-> "u2", expiresAt |-> FarFuture]
          [] t = "tok_a1" -> [userId |-> "a1", expiresAt |-> FarFuture]
          [] t = "tok_expired" -> [userId |-> "u1", expiresAt |-> 0]]

InitAdminSessions ==
    [t \in {"adm_ok", "adm_expired"} |->
        IF t = "adm_ok" THEN [expiresAt |-> FarFuture] ELSE [expiresAt |-> 0]]

GateOk(userId, isAdmin) ==
    [ok |-> TRUE, err |-> NoStr, userId |-> userId, isAdmin |-> isAdmin]
GateErr(err) ==
    [ok |-> FALSE, err |-> err, userId |-> NoStr, isAdmin |-> FALSE]

\* auth.ts requireUserSession
RequireUserSession(token) ==
    IF token \notin DOMAIN userSessions
    THEN GateErr("Session invalid. Please log in again.")
    ELSE IF userSessions[token].expiresAt < now
    THEN GateErr("Session expired. Please log in again.")
    ELSE IF userSessions[token].userId \notin DOMAIN UsersTable
    THEN GateErr("User not found. Please log in again.")
    ELSE GateOk(userSessions[token].userId,
                UsersTable[userSessions[token].userId].isAdmin)
\* requireAdmin without the isAdmin test
RequireAdminNoFlagCheck(token) == RequireUserSession(token)

\* auth.ts requireAdmin
RequireAdmin(token) ==
    LET s == RequireUserSession(token)
    IN  IF ~s.ok THEN s
        ELSE IF ~s.isAdmin THEN GateErr("Admin access required.")
        ELSE s

\* battlesnake.ts requireAdminSession.  Its ctx.db.delete of the expired
\* row is followed by a throw in the same mutation, so it never commits.
RequireAdminSession(token) ==
    IF token \notin DOMAIN adminSessions
    THEN GateErr("Admin session invalid. Sign in again.")
    ELSE IF adminSessions[token].expiresAt < now
    THEN GateErr("Admin session expired. Sign in again.")
    ELSE GateOk(NoStr, TRUE)

(***************************************************************************)
(* Table tests                                                             *)
(***************************************************************************)
\* A test document.  board.snakes is kept as the sequence of snake ids;
\* name, description, turn, game, food and hazards take no part in any
\* decision of the backend and are left out.
TestIds == 1..MaxTests
Statuses == {"pending", "approved", "rejected", "private"}

EmptyTable == [i \in {} |-> 0]

Insert(table, id, doc) == [i \in DOMAIN table \cup {id} |->
                              IF i = id THEN doc ELSE table[i]]
Delete(table, id) == [i \in DOMAIN table \ {id} |-> table[i]]

\* args.board.snakes.some(s => s.id === args.youId), test dropped
YouExistsUnchecked(snakes, youId) == TRUE

\* args.board.snakes.some(s => s.id === args.youId)
YouExists(snakes, youId) == \E i \in 1..Len(snakes) : snakes[i] = youId

\* what the last call did: the handler called, the error it threw (NoStr
\* when it returned) and the rows it returned
Result(op, err) == [op |-> op, err |-> err, rows |-> {}]

\* a query that returned rows (kept as the set of their ids)
ResultRows(op, rows) == [op |-> op, err |-> NoStr, rows |-> rows]

NoResult == Result("none", NoStr)

\* a handler that throws: the transaction commits nothing
Throw(op, err) ==
    /\ lastResult' = Result(op, err)
    /\ UNCHANGED <<tests, nextTestId>>

\* what no mutation of the tests table touches
StoreFrame == UNCHANGED <<now, userSessions, loggedOut, adminSessions, runs, nextRunId,
                          pc, loc, posts, writes, urlIn, urlOut, passIn,
                          passOut, adminRateLimits, failLog, engineUsage,
                          engineVars, collections, nextCollectionId>>

ModFrame == StoreFrame /\ UNCHANGED collectionTests

YouError == "youId must match a snake in the board."

\* ctx.db.insert("tests", ...) of createTest: no ownerId, no status
AdminTestDoc(youId, snakes, expected) ==
    [youId |-> youId, snakes |-> snakes, expectedSafeMoves |-> expected,
     ownerId |-> NoStr, status |-> NoStr, rejectionReason |-> NoStr,
     permaRejected |-> FALSE, approvedBy |-> NoStr, approvedAt |-> NoNum]

\* ctx.db.insert("tests", ...) of createUserTest
UserTestDoc(userId, youId, snakes, expected) ==
    [youId |-> youId, snakes |-> snakes, expectedSafeMoves |-> expected,
     ownerId |-> userId, status |-> "pending", rejectionReason |-> NoStr,
     permaRejected |-> FALSE, approvedBy |-> NoStr, approvedAt |-> NoNum]

\* the board / youId / expectedSafeMoves part of every update patch
PatchContent(doc, youId, snakes, expected) ==
    [doc EXCEPT !.youId = youId, !.snakes = snakes,
                !.expectedSafeMoves = expected]

CreateTest(adminToken, youId, snakes, expected) ==
    LET s == RequireAdminSession(adminToken)
        ym == YouExists(snakes, youId)
    IN  /\ ModFrame
        /\ IF ~s.ok THEN Throw("createTest", s.err)
           ELSE IF ~ym THEN Throw("createTest", YouError)
           ELSE /\ nextTestId <= MaxTests
                /\ tests' = Insert(tests, nextTestId,
                                   AdminTestDoc(youId, snakes, expected))
                /\ nextTestId' = nextTestId + 1
                /\ lastResult' = Result("createTest", NoStr)

UpdateTest(adminToken, id, youId, snakes, expected) ==
    LET s == RequireAdminSession(adminToken)
        ym == YouExists(snakes, youId)
    IN  /\ ModFrame
        /\ IF ~s.ok THEN Throw("updateTest", s.err)
           ELSE IF ~ym THEN Throw("updateTest", YouError)
           ELSE IF id \notin DOMAIN tests   \* ctx.db.patch throws
           THEN Throw("updateTest", "Update on nonexistent document")
           ELSE /\ tests' = [tests EXCEPT ![id] =
                                PatchContent(@, youId, snakes, expected)]
                /\ lastResult' = Result("updateTest", NoStr)
                /\ UNCHANGED nextTestId

DeleteTest(adminToken, id) ==
    LET s == RequireAdminSession(adminToken)
    IN  /\ StoreFrame
        /\ UNCHANGED collectionTests
        /\ IF ~s.ok THEN Throw("deleteTest", s.err)
           ELSE IF id \notin DOMAIN tests   \* ctx.db.delete throws
           THEN Throw("deleteTest", "Delete on nonexistent document")
           ELSE /\ tests' = Delete(tests, id)
                /\ lastResult' = Result("deleteTest", NoStr)
                /\ UNCHANGED nextTestId

CreateUserTest(token, youId, snakes, expected) ==
    LET s == RequireUserSession(token)
        ym == YouExists(snakes, youId)
    IN  /\ ModFrame
        /\ IF ~s.ok THEN Throw("createUserTest", s.err)
           ELSE IF ~ym THEN Throw("createUserTest", YouError)
           ELSE /\ nextTestId <= MaxTests
                /\ tests' = Insert(tests, nextTestId,
                                   UserTestDoc(s.userId, youId, snakes, expected))
                /\ nextTestId' = nextTestId + 1
                /\ lastResult' = Result("createUserTest", NoStr)
\* updateUserTest with a patch that leaves the status alone
UpdateUserTestKeepStatus(token, id, youId, snakes, expected) ==
    LET s == RequireUserSession(token)
        ym == YouExists(snakes, youId)
    IN  /\ ModFrame
        /\ IF ~s.ok THEN Throw("updateUserTest", s.err)
           ELSE IF id \notin DOMAIN tests
           THEN Throw("updateUserTest", "Test not found.")
           ELSE IF tests[id].ownerId # s.userId
           THEN Throw("updateUserTest", "You don't have permission to edit this test.")
           ELSE IF ~ym THEN Throw("updateUserTest", YouError)
           ELSE /\ tests' = [tests EXCEPT ![id] =
                                PatchContent(@, youId, snakes, expected)]
                /\ lastResult' = Result("updateUserTest", NoStr)
                /\ UNCHANGED nextTestId

UpdateUserTest(token, id, youId, snakes, expected) ==
    LET s == RequireUserSession(token)
        ym == YouExists(snakes, youId)
    IN  /\ ModFrame
        /\ IF ~s.ok THEN Throw("updateUserTest", s.err)
           ELSE IF id \notin DOMAIN tests
           THEN Throw("updateUserTest", "Test not found.")
           ELSE IF tests[id].ownerId # s.userId
           THEN Throw("updateUserTest", "You don't have permission to edit this test.")
           ELSE IF ~ym THEN Throw("updateUserTest", YouError)
           ELSE /\ tests' = [tests EXCEPT ![id] =
                                [PatchContent(@, youId, snakes, expected)
                                    EXCEPT !.status = "pending"]]
                /\ lastResult' = Result("updateUserTest", NoStr)
                /\ UNCHANGED nextTestId

AdminUpdateTest(token, id, youId, snakes, expected) ==
    LET s == RequireUserSession(token)
        ym == YouExists(snakes, youId)
    IN  /\ ModFrame
        /\ IF ~s.ok THEN Throw("adminUpdateTest", s.err)
           ELSE IF ~s.isAdmin
           THEN Throw("adminUpdateTest", "Admin access required.")
           ELSE IF id \notin DOMAIN tests
           THEN Throw("adminUpdateTest", "Test not found.")
           ELSE IF ~ym THEN Throw("adminUpdateTest", YouError)
           ELSE /\ tests' = [tests EXCEPT ![id] =
                                PatchContent(@, youId, snakes, expected)]
                /\ lastResult' = Result("adminUpdateTest", NoStr)
                /\ UNCHANGED nextTestId

\* the collectionTests rows left when those of one test are deleted
\* (index by_testId)
WithoutTest(rows, testId) ==
    [r \in {x \in DOMAIN rows : x.testId # testId} |-> rows[r]]

\* deleteUserTest; the collectionTests rows of the test are deleted in the
\* same transaction
DeleteUserTest(token, id) ==
    LET s == RequireUserSession(token)
    IN  /\ StoreFrame
        /\ IF ~s.ok
           THEN Throw("deleteUserTest", s.err) /\ UNCHANGED collectionTests
           ELSE IF id \notin DOMAIN tests
           THEN /\ Throw("deleteUserTest", "Test not found.")
                /\ UNCHANGED collectionTests
           ELSE IF tests[id].ownerId # s.userId /\ ~s.isAdmin
           THEN /\ Throw("deleteUserTest",
                         "You don't have permission to delete this test.")
                /\ UNCHANGED collectionTests
           ELSE /\ tests' = Delete(tests, id)
                /\ collectionTests' = WithoutTest(collectionTests, id)
                /\ lastResult' = Result("deleteUserTest", NoStr)
                /\ UNCHANGED nextTestId

(***************************************************************************)
(* Moderation                                                              *)
(***************************************************************************)
Reasons == {NoStr, "r1"}
\* approveTest with a patch that also unsets permaRejected
ApproveTestClearsPerma(token, id) ==
    LET s == RequireAdmin(token)
    IN  /\ ModFrame
        /\ IF ~s.ok THEN Throw("approveTest", s.err)
           ELSE IF id \notin DOMAIN tests
           THEN Throw("approveTest", "Test not found.")
           ELSE /\ tests' = [tests EXCEPT ![id] =
                                [@ EXCEPT !.status = "approved",
                                          !.approvedBy = s.userId,
                                          !.approvedAt = now,
                                          !.rejectionReason = NoStr,
                                          !.permaRejected = FALSE]]
                /\ lastResult' = Result("approveTest", NoStr)
                /\ UNCHANGED nextTestId

\* approveTest with a patch that leaves rejectionReason alone
ApproveTestKeepsReason(token, id) ==
    LET s == RequireAdmin(token)
    IN  /\ ModFrame
        /\ IF ~s.ok THEN Throw("approveTest", s.err)
           ELSE IF id \notin DOMAIN tests
           THEN Throw("approveTest", "Test not found.")
           ELSE /\ tests' = [tests EXCEPT ![id] =
                                [@ EXCEPT !.status = "approved",
                                          !.approvedBy = s.userId,
                                          !.approvedAt = now]]
                /\ lastResult' = Result("approveTest", NoStr)
                /\ UNCHANGED nextTestId

ApproveTest(token, id) ==
    LET s == RequireAdmin(token)
    IN  /\ ModFrame
        /\ IF ~s.ok THEN Throw("approveTest", s.err)
           ELSE IF id \notin DOMAIN tests
           THEN Throw("approveTest", "Test not found.")
           ELSE /\ tests' = [tests EXCEPT ![id] =
                                [@ EXCEPT !.status = "approved",
                                          !.approvedBy = s.userId,
                                          !.approvedAt = now,
                                          !.rejectionReason = NoStr]]
                /\ lastResult' = Result("approveTest", NoStr)
                /\ UNCHANGED nextTestId
\* rejectTest with a patch that also unsets permaRejected
RejectTestClearsPerma(token, id, reason) ==
    LET s == RequireAdmin(token)
    IN  /\ ModFrame
        /\ IF ~s.ok THEN Throw("rejectTest", s.err)
           ELSE IF id \notin DOMAIN tests
           THEN Throw("rejectTest", "Test not found.")
           ELSE /\ tests' = [tests EXCEPT ![id] =
                                [@ EXCEPT !.status = "rejected",
                                          !.rejectionReason = reason,
                                          !.permaRejected = FALSE]]
                /\ lastResult' = Result("rejectTest", NoStr)
                /\ UNCHANGED nextTestId

RejectTest(token, id, reason) ==
    LET s == RequireAdmin(token)
    IN  /\ ModFrame
        /\ IF ~s.ok THEN Throw("rejectTest", s.err)
           ELSE IF id \notin DOMAIN tests
           THEN Throw("rejectTest", "Test not found.")
           ELSE /\ tests' = [tests EXCEPT ![id] =
                                [@ EXCEPT !.status = "rejected",
                                          !.rejectionReason = reason]]
                /\ lastResult' = Result("rejectTest", NoStr)
                /\ UNCHANGED nextTestId

PermaRejectTest(token, id, reason) ==
    LET s == RequireAdmin(token)
    IN  /\ ModFrame
        /\ IF ~s.ok THEN Throw("permaRejectTest", s.err)
           ELSE IF id \notin DOMAIN tests
           THEN Throw("permaRejectTest", "Test not found.")
           ELSE /\ tests' = [tests EXCEPT ![id] =
                                [@ EXCEPT !.status = "rejected",
                                          !.rejectionReason = reason,
                                          !.permaRejected = TRUE]]
                /\ lastResult' = Result("permaRejectTest", NoStr)
                /\ UNCHANGED nextTestId

NotOwnerResubmit == "You don't have permission to resubmit this test."
NotRejected == "Only rejected tests can be resubmitted."
PermaRejectedError ==
    "This test has been permanently rejected and cannot be resubmitted."

\* resubmitTest without the permaRejected test
ResubmitTestNoPermaCheck(token, id) ==
    LET s == RequireUserSession(token)
    IN  /\ ModFrame
        /\ IF ~s.ok THEN Throw("resubmitTest", s.err)
           ELSE IF id \notin DOMAIN tests
           THEN Throw("resubmitTest", "Test not found.")
           ELSE IF tests[id].ownerId # s.userId
           THEN Throw("resubmitTest", NotOwnerResubmit)
           ELSE IF tests[id].status # "rejected"
           THEN Throw("resubmitTest", NotRejected)
           ELSE /\ tests' = [tests EXCEPT ![id] =
                                [@ EXCEPT !.status = "pending",
                                          !.rejectionReason = NoStr]]
                /\ lastResult' = Result("resubmitTest", NoStr)
                /\ UNCHANGED nextTestId

\* resubmitTest without the status test
ResubmitTestNoStatusCheck(token, id) ==
    LET s == RequireUserSession(token)
    IN  /\ ModFrame
        /\ IF ~s.ok THEN Throw("resubmitTest", s.err)
           ELSE IF id \notin DOMAIN tests
           THEN Throw("resubmitTest", "Test not found.")
           ELSE IF tests[id].ownerId # s.userId
           THEN Throw("resubmitTest", NotOwnerResubmit)
           ELSE IF tests[id].permaRejected
           THEN Throw("resubmitTest", PermaRejectedError)
           ELSE /\ tests' = [tests EXCEPT ![id] =
                                [@ EXCEPT !.status = "pending",
                                          !.rejectionReason = NoStr]]
                /\ lastResult' = Result("resubmitTest", NoStr)
                /\ UNCHANGED nextTestId

ResubmitTest(token, id) ==
    LET s == RequireUserSession(token)
    IN  /\ ModFrame
        /\ IF ~s.ok THEN Throw("resubmitTest", s.err)
           ELSE IF id \notin DOMAIN tests
           THEN Throw("resubmitTest", "Test not found.")
           ELSE IF tests[id].ownerId # s.userId
           THEN Throw("resubmitTest", NotOwnerResubmit)
           ELSE IF tests[id].status # "rejected"
           THEN Throw("resubmitTest", NotRejected)
           ELSE IF tests[id].permaRejected
           THEN Throw("resubmitTest", PermaRejectedError)
           ELSE /\ tests' = [tests EXCEPT ![id] =
                                [@ EXCEPT !.status = "pending",
                                          !.rejectionReason = NoStr]]
                /\ lastResult' = Result("resubmitTest", NoStr)
                /\ UNCHANGED nextTestId

MakeTestPrivate(token, id) ==
    LET s == RequireAdmin(token)
    IN  /\ ModFrame
        /\ IF ~s.ok THEN Throw("makeTestPrivate", s.err)
           ELSE IF id \notin DOMAIN tests
           THEN Throw("makeTestPrivate", "Test not found.")
           ELSE /\ tests' = [tests EXCEPT ![id] = [@ EXCEPT !.status = "private"]]
                /\ lastResult' = Result("makeTestPrivate", NoStr)
                /\ UNCHANGED nextTestId

\* .withIndex("by_status", q => q.eq("status", status)).collect(), as a set
QueryByStatus(status) == {id \in DOMAIN tests : tests[id].status = status}
\* the three moderation listings: requireAdmin, then the by_status index
ListPendingTests(token) ==
    LET s == RequireAdmin(token)
    IN  /\ ModFrame
        /\ IF ~s.ok THEN Throw("listPendingTests", s.err)
           ELSE /\ lastResult' = ResultRows("listPendingTests",
                                            QueryByStatus("pending"))
                /\ UNCHANGED <<tests, nextTestId>>

ListRejectedTests(token) ==
    LET s == RequireAdmin(token)
    IN  /\ ModFrame
        /\ IF ~s.ok THEN Throw("listRejectedTests", s.err)
           ELSE /\ lastResult' = ResultRows("listRejectedTests",
                                            QueryByStatus("rejected"))
                /\ UNCHANGED <<tests, nextTestId>>

ListPrivateTests(token) ==
    LET s == RequireAdmin(token)
    IN  /\ ModFrame
        /\ IF ~s.ok THEN Throw("listPrivateTests", s.err)
           ELSE /\ lastResult' = ResultRows("listPrivateTests",
                                            QueryByStatus("private"))
                /\ UNCHANGED <<tests, nextTestId>>

\* listTests: every stored test
ListTests == DOMAIN tests

\* a public listing that ignores the status index
ListPublicTestsAnyStatus == DOMAIN tests

\* listPublicTests
ListPublicTests == QueryByStatus("approved")
(***************************************************************************)
(* auth.ts: login and its rate limiter.  One tick of the clock is one       *)
(* minute.                                                                  *)
(***************************************************************************)
\* 5 * 60 * 1000 ms
RATE_LIMIT_WINDOW_MS == 5
RATE_LIMIT_MAX_ATTEMPTS == 5
\* 24 * 60 * 60 * 1000 ms
SESSION_TTL_MS == 1440

Clients == {"c1"}
Emails == {"u1@x", " U1@X ", "nobody@x"}
Passwords == {"pw_u1", "wrong"}

\* args.email.toLowerCase().trim()
EmailLower(email) == IF email = " U1@X " THEN "u1@x" ELSE email

\* users by_emailLower, and the stored passwordHash
UserByEmailLower(emailLower) == IF emailLower = "u1@x" THEN "u1" ELSE NoStr
PasswordHash(userId) == <<"bcrypt", "pw_" \o userId>>

\* bcrypt.compareSync(password, hash)
BcryptCompareSync(password, hash) == hash = <<"bcrypt", password>>

\* crypto.randomUUID(): a token no session has yet
LoginTokens == [i \in 1..MaxLogins |-> "tok_login" \o ToString(i)]
LoginsDone ==
    Cardinality({i \in 1..MaxLogins :
                    LoginTokens[i] \in DOMAIN userSessions \cup loggedOut})

\* checkRateLimit without the blockedUntil test
CheckRateLimitNeverBlocked(clientId) == [blocked |-> FALSE, retryAt |-> NoNum]

\* checkRateLimit
CheckRateLimit(clientId) ==
    IF /\ clientId \in DOMAIN adminRateLimits
       /\ adminRateLimits[clientId].blockedUntil # NoNum
       /\ adminRateLimits[clientId].blockedUntil # 0
       /\ adminRateLimits[clientId].blockedUntil > now
    THEN [blocked |-> TRUE, retryAt |-> adminRateLimits[clientId].blockedUntil]
    ELSE [blocked |-> FALSE, retryAt |-> NoNum]
\* recordFailedAttempt whose window still runs at its last minute
RecordFailedAttemptInclusiveWindow(clientId) ==
    LET has == clientId \in DOMAIN adminRateLimits
        windowStart == IF has THEN adminRateLimits[clientId].windowStart ELSE now
        withinWindow == now - windowStart <= RATE_LIMIT_WINDOW_MS
        attempts == IF withinWindow
                    THEN (IF has THEN adminRateLimits[clientId].attempts ELSE 0)
                    ELSE 0
        nextAttempts == attempts + 1
        blockedUntil == IF nextAttempts >= RATE_LIMIT_MAX_ATTEMPTS
                        THEN now + RATE_LIMIT_WINDOW_MS
                        ELSE NoNum
    IN  Insert(adminRateLimits, clientId,
               [windowStart |-> IF has /\ withinWindow THEN windowStart ELSE now,
                attempts |-> nextAttempts,
                blockedUntil |-> blockedUntil])

\* recordFailedAttempt: the adminRateLimits table after it
RecordFailedAttempt(clientId) ==
    LET has == clientId \in DOMAIN adminRateLimits
        windowStart == IF has THEN adminRateLimits[clientId].windowStart ELSE now
        withinWindow == now - windowStart < RATE_LIMIT_WINDOW_MS
        attempts == IF withinWindow
                    THEN (IF has THEN adminRateLimits[clientId].attempts ELSE 0)
                    ELSE 0
        nextAttempts == attempts + 1
        blockedUntil == IF nextAttempts >= RATE_LIMIT_MAX_ATTEMPTS
                        THEN now + RATE_LIMIT_WINDOW_MS
                        ELSE NoNum
    IN  Insert(adminRateLimits, clientId,
               [windowStart |-> IF has /\ withinWindow THEN windowStart ELSE now,
                attempts |-> nextAttempts,
                blockedUntil |-> blockedUntil])

\* resetRateLimit that leaves the limiter as it is
ResetRateLimitNoop(clientId) == adminRateLimits
\* resetRateLimit that keeps the block of the row
ResetRateLimitKeepsBlock(clientId) ==
    IF clientId \in DOMAIN adminRateLimits
    THEN [adminRateLimits EXCEPT ![clientId] =
             [windowStart |-> now, attempts |-> 0,
              blockedUntil |-> adminRateLimits[clientId].blockedUntil]]
    ELSE adminRateLimits

\* resetRateLimit: the adminRateLimits table after it
ResetRateLimit(clientId) ==
    IF clientId \in DOMAIN adminRateLimits
    THEN [adminRateLimits EXCEPT ![clientId] =
             [windowStart |-> now, attempts |-> 0, blockedUntil |-> NoNum]]
    ELSE adminRateLimits

AuthFrame == UNCHANGED <<now, adminSessions, tests, nextTestId, runs,
                         nextRunId, pc, loc, posts, writes, urlIn, urlOut,
                         passIn, passOut, engineUsage,
                         engineVars, collectionVars>>

\* the newest RATE_LIMIT_MAX_ATTEMPTS entries of the log, with one more
Logged(log, t) ==
    LET all == Append(log, t)
    IN  IF Len(all) > RATE_LIMIT_MAX_ATTEMPTS THEN Tail(all) ELSE all

LoginFails(clientId, err) ==
    /\ adminRateLimits' = RecordFailedAttempt(clientId)
    /\ failLog' = [failLog EXCEPT ![clientId] = Logged(@, now)]
    /\ lastResult' = Result("login", err)
    /\ UNCHANGED <<userSessions, loggedOut>>
\* login that counts an attempt made while the clientId is blocked
LoginRecordsWhenBlocked(email, password, clientId) ==
    LET rateCheck == CheckRateLimit(clientId)
        user == UserByEmailLower(EmailLower(email))
    IN  /\ AuthFrame
        /\ IF rateCheck.blocked
           THEN /\ adminRateLimits' = RecordFailedAttempt(clientId)
                /\ lastResult' = Result("login", "Too many attempts. Try again later.")
                /\ UNCHANGED <<userSessions, loggedOut, failLog>>
           ELSE IF user = NoStr
           THEN LoginFails(clientId, "Invalid email or password.")
           ELSE IF ~BcryptCompareSync(password, PasswordHash(user))
           THEN LoginFails(clientId, "Invalid email or password.")
           ELSE /\ LoginsDone < MaxLogins
                /\ adminRateLimits' = ResetRateLimit(clientId)
                /\ failLog' = [failLog EXCEPT ![clientId] = <<>>]
                /\ userSessions' =
                       Insert(userSessions, LoginTokens[LoginsDone + 1],
                              [userId |-> user,
                               expiresAt |-> now + SESSION_TTL_MS])
                /\ UNCHANGED loggedOut
                /\ lastResult' = Result("login", NoStr)

Login(email, password, clientId) ==
    LET rateCheck == CheckRateLimit(clientId)
        user == UserByEmailLower(EmailLower(email))
    IN  /\ AuthFrame
        /\ IF rateCheck.blocked
           THEN /\ lastResult' = Result("login", "Too many attempts. Try again later.")
                /\ UNCHANGED <<userSessions, loggedOut, adminRateLimits, failLog>>
           ELSE IF user = NoStr
           THEN LoginFails(clientId, "Invalid email or password.")
           ELSE IF ~BcryptCompareSync(password, PasswordHash(user))
           THEN LoginFails(clientId, "Invalid email or password.")
           ELSE /\ LoginsDone < MaxLogins
                /\ adminRateLimits' = ResetRateLimit(clientId)
                /\ failLog' = [failLog EXCEPT ![clientId] = <<>>]
                /\ userSessions' =
                       Insert(userSessions, LoginTokens[LoginsDone + 1],
                              [userId |-> user,
                               expiresAt |-> now + SESSION_TTL_MS])
                /\ UNCHANGED loggedOut
                /\ lastResult' = Result("login", NoStr)
\* logout that answers ok and keeps the session
LogoutKeepsSession(token) ==
    /\ AuthFrame
    /\ UNCHANGED <<adminRateLimits, failLog, userSessions>>
    /\ loggedOut' = IF token \in DOMAIN userSessions
                    THEN loggedOut \cup {token} ELSE loggedOut
    /\ lastResult' = Result("logout", NoStr)

\* logout
Logout(token) ==
    /\ AuthFrame
    /\ UNCHANGED <<adminRateLimits, failLog>>
    /\ IF token \in DOMAIN userSessions
       THEN /\ userSessions' = Delete(userSessions, token)
            /\ loggedOut' = loggedOut \cup {token}
       ELSE UNCHANGED <<userSessions, loggedOut>>
    /\ lastResult' = Result("logout", NoStr)
(***************************************************************************)
(* battlesnake.ts verifyAdminPassword: the admin password gate, which      *)
(* keeps its attempts in the adminRateLimits table too                     *)
(***************************************************************************)
\* 12 * 60 * 60 * 1000 ms
ADMIN_SESSION_TTL_MS == 720

AdminPasswords == {"admin_pw", "wrong"}
\* process.env[ADMIN_ENV_KEY]: unset, or the password
AdminEnv == {NoStr, "admin_pw"}

\* requireAdminPassword: the message it throws, NoStr when it returns
RequireAdminPassword(password, expected) ==
    IF expected = NoStr
    THEN "Admin password not configured. Set BATTLESNAKE_ADMIN_PASSWORD in Convex env."
    ELSE IF password # expected THEN "Invalid admin password."
    ELSE NoStr

\* crypto.randomUUID(): a token no admin session has yet
AdminLoginTokens == [i \in 1..MaxLogins |-> "adm_login" \o ToString(i)]
AdminLoginsDone ==
    Cardinality({i \in 1..MaxLogins :
                    AdminLoginTokens[i] \in DOMAIN adminSessions})

VerifyAdminPassword(password, expected, clientId) ==
    LET has == clientId \in DOMAIN adminRateLimits
        blocked == /\ has
                   /\ adminRateLimits[clientId].blockedUntil # NoNum
                   /\ adminRateLimits[clientId].blockedUntil # 0
                   /\ adminRateLimits[clientId].blockedUntil > now
        windowStart == IF has THEN adminRateLimits[clientId].windowStart ELSE now
        withinWindow == now - windowStart < RATE_LIMIT_WINDOW_MS
        attempts == IF withinWindow
                    THEN (IF has THEN adminRateLimits[clientId].attempts ELSE 0)
                    ELSE 0
        thrown == RequireAdminPassword(password, expected)
        nextAttempts == attempts + 1
    IN  /\ UNCHANGED <<now, userSessions, loggedOut, tests, nextTestId, runs, nextRunId,
                       pc, loc, posts, writes, urlIn, urlOut, passIn, passOut,
                       engineUsage, engineVars, collectionVars>>
        /\ IF blocked
           THEN /\ lastResult' = Result("verifyAdminPassword",
                                        "Too many attempts. Try again later.")
                /\ UNCHANGED <<adminRateLimits, adminSessions, failLog>>
           ELSE IF thrown # NoStr
           THEN /\ adminRateLimits' =
                       Insert(adminRateLimits, clientId,
                              [windowStart |-> IF has /\ withinWindow
                                               THEN windowStart ELSE now,
                               attempts |-> nextAttempts,
                               blockedUntil |->
                                   IF nextAttempts >= RATE_LIMIT_MAX_ATTEMPTS
                                   THEN now + RATE_LIMIT_WINDOW_MS
                                   ELSE NoNum])
                /\ failLog' = [failLog EXCEPT ![clientId] = Logged(@, now)]
                /\ lastResult' = Result("verifyAdminPassword", thrown)
                /\ UNCHANGED adminSessions
           ELSE /\ AdminLoginsDone < MaxLogins
                /\ adminRateLimits' =
                       Insert(adminRateLimits, clientId,
                              [windowStart |-> now, attempts |-> 0,
                               blockedUntil |-> NoNum])
                /\ adminSessions' =
                       Insert(adminSessions,
                              AdminLoginTokens[AdminLoginsDone + 1],
                              [expiresAt |-> now + ADMIN_SESSION_TTL_MS])
                /\ failLog' = [failLog EXCEPT ![clientId] = <<>>]
                /\ lastResult' = Result("verifyAdminPassword", NoStr)
(***************************************************************************)
(* auth.ts getCurrentUser and engine.ts                                    *)
(***************************************************************************)
MONTHLY_ENGINE_LIMIT == 5

\* the minute at which the calendar month changes
MonthTurn == 4

\* getFullYear() * 12 + getMonth() of new Date()
GetCurrentMonth ==
    IF now < MonthTurn THEN 2026 * 12 + 10 ELSE 2026 * 12 + 11

\* the engine flags of the users table; no function of the repository
\* writes them
EngineFlags ==
    [u \in Users |-> [bannedFromEngine |-> (u \in {"u2", "s1"}),
                      isSuperAdmin |-> (u \in {"a1", "s1"})]]

SessionTokens == UserTokens \cup {"tok_s1", "tok_unknown"}

EngineFrame == UNCHANGED <<now, userSessions, loggedOut, adminSessions, tests,
                           nextTestId, runs, nextRunId, pc, loc, posts,
                           writes, urlIn, urlOut, passIn, passOut,
                           adminRateLimits, failLog, collectionVars>>

\* getCurrentUser: null (kept in err as "null") or the user
GetCurrentUser(token) ==
    /\ EngineFrame
    /\ UNCHANGED <<engineUsage, engineVars>>
    /\ lastResult' =
          IF token \notin DOMAIN userSessions
          THEN Result("getCurrentUser", "null")
          ELSE IF userSessions[token].expiresAt < now
          THEN Result("getCurrentUser", "null")
          ELSE IF userSessions[token].userId \notin DOMAIN UsersTable
          THEN Result("getCurrentUser", "null")
          ELSE Result("getCurrentUser", NoStr)

\* the usage count read without the month test
UsageCountIgnoresMonth(userId) ==
    IF engineUsage[userId].engineUsageCount = NoNum THEN 0
    ELSE engineUsage[userId].engineUsageCount

\* user.engineUsageResetMonth !== currentMonth ? 0 : user.engineUsageCount ?? 0
UsageCount(userId) ==
    IF engineUsage[userId].engineUsageResetMonth # GetCurrentMonth THEN 0
    ELSE IF engineUsage[userId].engineUsageCount = NoNum THEN 0
    ELSE engineUsage[userId].engineUsageCount

\* the object checkEngineAccess returns (error NoStr on ok: true)
EngineAccess(token) ==
    LET userId == userSessions[token].userId
        No(err) == [ok |-> FALSE, error |-> err, canUse |-> FALSE,
                    usageRemaining |-> 0]
        usageRemaining == MONTHLY_ENGINE_LIMIT - UsageCount(userId)
    IN  IF token \notin DOMAIN userSessions THEN No("Session invalid.")
        ELSE IF userSessions[token].expiresAt < now
        THEN No("Session expired.")
        ELSE IF userId \notin DOMAIN UsersTable THEN No("User not found.")
        ELSE IF EngineFlags[userId].bannedFromEngine
        THEN No("You are banned from using the engine.")
        ELSE IF EngineFlags[userId].isSuperAdmin
        THEN [ok |-> TRUE, error |-> NoStr, canUse |-> TRUE,
              usageRemaining |-> -1]
        ELSE [ok |-> TRUE, error |-> NoStr, canUse |-> usageRemaining > 0,
              usageRemaining |-> usageRemaining]

\* checkEngineAccess: a query; rows holds the usageRemaining it returns
CheckEngineAccess(token) ==
    /\ EngineFrame
    /\ UNCHANGED <<engineUsage, engineVars>>
    /\ lastResult' = [op |-> "checkEngineAccess",
                      err |-> EngineAccess(token).error,
                      rows |-> {EngineAccess(token).usageRemaining}]

\* incrementEngineUsage with the super-admin test ahead of the ban test
IncrementOutcomeSuperAdminFirst(token) ==
    LET userId == userSessions[token].userId
        Same(err) == [err |-> err, usage |-> engineUsage]
    IN  IF token \notin DOMAIN userSessions THEN Same("Session invalid.")
        ELSE IF userId \notin DOMAIN UsersTable THEN Same("User not found.")
        ELSE IF EngineFlags[userId].isSuperAdmin THEN Same(NoStr)
        ELSE IF EngineFlags[userId].bannedFromEngine
        THEN Same("You are banned from using the engine.")
        ELSE IF UsageCount(userId) >= MONTHLY_ENGINE_LIMIT
        THEN Same("Monthly engine usage limit reached (5 uses per month).")
        ELSE [err |-> NoStr,
              usage |-> [engineUsage EXCEPT ![userId] =
                            [engineUsageCount |-> UsageCount(userId) + 1,
                             engineUsageResetMonth |-> GetCurrentMonth]]]

\* incrementEngineUsage: the error it returns (NoStr on ok: true) and the
\* engineUsage it commits.  The session's expiresAt is not read.
IncrementOutcome(token) ==
    LET userId == userSessions[token].userId
        Same(err) == [err |-> err, usage |-> engineUsage]
    IN  IF token \notin DOMAIN userSessions THEN Same("Session invalid.")
        ELSE IF userId \notin DOMAIN UsersTable THEN Same("User not found.")
        ELSE IF EngineFlags[userId].bannedFromEngine
        THEN Same("You are banned from using the engine.")
        ELSE IF EngineFlags[userId].isSuperAdmin THEN Same(NoStr)
        ELSE IF UsageCount(userId) >= MONTHLY_ENGINE_LIMIT
        THEN Same("Monthly engine usage limit reached (5 uses per month).")
        ELSE [err |-> NoStr,
              usage |-> [engineUsage EXCEPT ![userId] =
                            [engineUsageCount |-> UsageCount(userId) + 1,
                             engineUsageResetMonth |-> GetCurrentMonth]]]

IncrementEngineUsage(token) ==
    LET out == IncrementOutcome(token)
    IN  /\ EngineFrame
        /\ UNCHANGED engineVars
        /\ engineUsage' = out.usage
        /\ lastResult' = Result("incrementEngineUsage", out.err)

\* what the engine does with the POST: answers, answers with a status that
\* is not ok, or cannot be reached
EngineReplies == {"ok", "status", "unreachable"}

\* analyseWithEngine going on to the POST whatever the mutation answered
AnalyseCallIgnoresDenial(token, configured, youFound) ==
    LET out == IncrementOutcome(token)
    IN  /\ analysing = NoStr
        /\ EngineFrame
        /\ IF ~configured
           THEN /\ lastResult' = Result("analyseWithEngine",
                                        "Engine URL is not configured.")
                /\ UNCHANGED <<engineUsage, engineVars>>
           ELSE IF ~youFound
           THEN /\ lastResult' = Result("analyseWithEngine",
                                        "Could not find your snake on the board.")
                /\ UNCHANGED <<engineUsage, engineVars>>
           ELSE /\ enginePosts < MaxEnginePosts
                /\ engineUsage' = out.usage
                /\ analysing' = token
                /\ lastResult' = Result("incrementEngineUsage", out.err)
                /\ UNCHANGED enginePosts

\* analyseWithEngine, lines 153-168: the two early returns, then the
\* incrementEngineUsage mutation, which commits on its own.  When it
\* answers ok the action goes on to the POST (AnalyseFetch).
AnalyseCall(token, configured, youFound) ==
    LET out == IncrementOutcome(token)
    IN  /\ analysing = NoStr
        /\ EngineFrame
        /\ IF ~configured
           THEN /\ lastResult' = Result("analyseWithEngine",
                                        "Engine URL is not configured.")
                /\ UNCHANGED <<engineUsage, engineVars>>
           ELSE IF ~youFound
           THEN /\ lastResult' = Result("analyseWithEngine",
                                        "Could not find your snake on the board.")
                /\ UNCHANGED <<engineUsage, engineVars>>
           ELSE IF out.err # NoStr
           THEN /\ lastResult' = Result("analyseWithEngine", out.err)
                /\ UNCHANGED <<engineUsage, engineVars>>
           ELSE /\ enginePosts < MaxEnginePosts
                /\ engineUsage' = out.usage
                /\ analysing' = token
                /\ lastResult' = Result("incrementEngineUsage", NoStr)
                /\ UNCHANGED enginePosts

\* analyseWithEngine, lines 170-196: the POST and what is made of the reply
AnalyseFetch(reply) ==
    /\ analysing # NoStr
    /\ EngineFrame
    /\ UNCHANGED engineUsage
    /\ enginePosts' = enginePosts + 1
    /\ analysing' = NoStr
    /\ lastResult' =
          IF reply = "status"
          THEN Result("analyseWithEngine", "Engine returned status 500")
          ELSE IF reply = "unreachable"
          THEN Result("analyseWithEngine",
                      "Failed to contact engine: fetch failed")
          ELSE Result("analyseWithEngine", NoStr)

(***************************************************************************)
(* Tables collections and collectionTests                                  *)
(***************************************************************************)
CollectionIds == 1..MaxCollections

\* what generateSlug may return
Slugs == {"slug1", "slug2"}

CollFrame == UNCHANGED <<now, userSessions, loggedOut, adminSessions, tests, nextTestId,
                         runs, nextRunId, pc, loc, posts, writes, urlIn,
                         urlOut, passIn, passOut, adminRateLimits, failLog,
                         engineUsage, engineVars>>

\* a collection mutation that throws: the transaction commits nothing
CollThrow(op, err) ==
    /\ lastResult' = Result(op, err)
    /\ UNCHANGED collectionVars

CollectionNotFound == "Collection not found."
EditDenied == "You don't have permission to edit this collection."
DeleteDenied == "You don't have permission to delete this collection."
ModifyDenied == "You don't have permission to modify this collection."

\* a collectionTests row; its _id is used for nothing but its deletion
\* and addedAt is never read, so the table is kept as the number of rows
\* per (collectionId, testId)
Row(collectionId, testId) == [collectionId |-> collectionId, testId |-> testId]

RowCount == BagCardinality(collectionTests)

\* ctx.db.insert("collectionTests", ...)
InsertRow(rows, row) ==
    IF row \in DOMAIN rows THEN [rows EXCEPT ![row] = @ + 1]
    ELSE Insert(rows, row, 1)

\* ctx.db.delete(ct._id) of one row
DeleteRow(rows, row) ==
    IF rows[row] > 1 THEN [rows EXCEPT ![row] = @ - 1]
    ELSE Delete(rows, row)

\* the rows of one collection (index by_collectionId)
RowsOf(collectionId) ==
    {r \in DOMAIN collectionTests : r.collectionId = collectionId}

\* .withIndex("by_collectionId").filter(testId).first() finds a row
Matching(collectionId, testId) ==
    Row(collectionId, testId) \in DOMAIN collectionTests

CreateCollection(token, name, description, isPublic, shareSlug) ==
    LET s == RequireUserSession(token)
    IN  /\ CollFrame
        /\ IF ~s.ok THEN CollThrow("createCollection", s.err)
           ELSE /\ nextCollectionId <= MaxCollections
                /\ collections' =
                      Insert(collections, nextCollectionId,
                             [name |-> name, description |-> description,
                              ownerId |-> s.userId, isPublic |-> isPublic,
                              shareSlug |-> shareSlug, createdAt |-> now,
                              updatedAt |-> now])
                /\ nextCollectionId' = nextCollectionId + 1
                /\ lastResult' = Result("createCollection", NoStr)
                /\ UNCHANGED collectionTests

\* updateCollection letting an admin edit any collection
UpdateCollectionAdminMayEdit(token, id, name, description, isPublic) ==
    LET s == RequireUserSession(token)
    IN  /\ CollFrame
        /\ IF ~s.ok THEN CollThrow("updateCollection", s.err)
           ELSE IF id \notin DOMAIN collections
           THEN CollThrow("updateCollection", CollectionNotFound)
           ELSE IF collections[id].ownerId # s.userId /\ ~s.isAdmin
           THEN CollThrow("updateCollection", EditDenied)
           ELSE /\ collections' =
                      [collections EXCEPT ![id] =
                          [@ EXCEPT !.name = name,
                                    !.description = description,
                                    !.isPublic = isPublic,
                                    !.updatedAt = now]]
                /\ lastResult' = Result("updateCollection", NoStr)
                /\ UNCHANGED <<nextCollectionId, collectionTests>>

UpdateCollection(token, id, name, description, isPublic) ==
    LET s == RequireUserSession(token)
    IN  /\ CollFrame
        /\ IF ~s.ok THEN CollThrow("updateCollection", s.err)
           ELSE IF id \notin DOMAIN collections
           THEN CollThrow("updateCollection", CollectionNotFound)
           ELSE IF collections[id].ownerId # s.userId
           THEN CollThrow("updateCollection", EditDenied)
           ELSE /\ collections' =
                      [collections EXCEPT ![id] =
                          [@ EXCEPT !.name = name,
                                    !.description = description,
                                    !.isPublic = isPublic,
                                    !.updatedAt = now]]
                /\ lastResult' = Result("updateCollection", NoStr)
                /\ UNCHANGED <<nextCollectionId, collectionTests>>

\* deleteCollection: the rows of the collection, then the collection
DeleteCollection(token, id) ==
    LET s == RequireUserSession(token)
    IN  /\ CollFrame
        /\ IF ~s.ok THEN CollThrow("deleteCollection", s.err)
           ELSE IF id \notin DOMAIN collections
           THEN CollThrow("deleteCollection", CollectionNotFound)
           ELSE IF collections[id].ownerId # s.userId
           THEN CollThrow("deleteCollection", DeleteDenied)
           ELSE /\ collectionTests' =
                      [r \in DOMAIN collectionTests \ RowsOf(id) |->
                          collectionTests[r]]
                /\ collections' = Delete(collections, id)
                /\ lastResult' = Result("deleteCollection", NoStr)
                /\ UNCHANGED nextCollectionId

RegenerateShareSlug(token, id, newSlug) ==
    LET s == RequireUserSession(token)
    IN  /\ CollFrame
        /\ IF ~s.ok THEN CollThrow("regenerateShareSlug", s.err)
           ELSE IF id \notin DOMAIN collections
           THEN CollThrow("regenerateShareSlug", CollectionNotFound)
           ELSE IF collections[id].ownerId # s.userId
           THEN CollThrow("regenerateShareSlug", ModifyDenied)
           ELSE /\ collections' =
                      [collections EXCEPT ![id] =
                          [@ EXCEPT !.shareSlug = newSlug,
                                    !.updatedAt = now]]
                /\ lastResult' = Result("regenerateShareSlug", NoStr)
                /\ UNCHANGED <<nextCollectionId, collectionTests>>

TestNotAddable ==
    "You can only add your own tests or public tests to collections."
AlreadyInCollection == "Test is already in this collection."

\* addTestToCollection without the test of owner and status
AddTestToCollectionAnyTest(token, collectionId, testId) ==
    LET s == RequireUserSession(token)
    IN  /\ CollFrame
        /\ IF ~s.ok THEN CollThrow("addTestToCollection", s.err)
           ELSE IF collectionId \notin DOMAIN collections
           THEN CollThrow("addTestToCollection", CollectionNotFound)
           ELSE IF collections[collectionId].ownerId # s.userId
           THEN CollThrow("addTestToCollection", ModifyDenied)
           ELSE IF testId \notin DOMAIN tests
           THEN CollThrow("addTestToCollection", "Test not found.")
           ELSE IF Matching(collectionId, testId)
           THEN CollThrow("addTestToCollection", AlreadyInCollection)
           ELSE /\ RowCount < MaxRows
                /\ collectionTests' =
                      InsertRow(collectionTests, Row(collectionId, testId))
                /\ lastResult' = Result("addTestToCollection", NoStr)
                /\ UNCHANGED <<collections, nextCollectionId>>

\* addTestToCollection without the lookup of an existing row
AddTestToCollectionNoLookup(token, collectionId, testId) ==
    LET s == RequireUserSession(token)
    IN  /\ CollFrame
        /\ IF ~s.ok THEN CollThrow("addTestToCollection", s.err)
           ELSE IF collectionId \notin DOMAIN collections
           THEN CollThrow("addTestToCollection", CollectionNotFound)
           ELSE IF collections[collectionId].ownerId # s.userId
           THEN CollThrow("addTestToCollection", ModifyDenied)
           ELSE IF testId \notin DOMAIN tests
           THEN CollThrow("addTestToCollection", "Test not found.")
           ELSE IF /\ tests[testId].ownerId # s.userId
                   /\ tests[testId].status # "approved"
           THEN CollThrow("addTestToCollection", TestNotAddable)
           ELSE /\ RowCount < MaxRows
                /\ collectionTests' =
                      InsertRow(collectionTests, Row(collectionId, testId))
                /\ lastResult' = Result("addTestToCollection", NoStr)
                /\ UNCHANGED <<collections, nextCollectionId>>

AddTestToCollection(token, collectionId, testId) ==
    LET s == RequireUserSession(token)
    IN  /\ CollFrame
        /\ IF ~s.ok THEN CollThrow("addTestToCollection", s.err)
           ELSE IF collectionId \notin DOMAIN collections
           THEN CollThrow("addTestToCollection", CollectionNotFound)
           ELSE IF collections[collectionId].ownerId # s.userId
           THEN CollThrow("addTestToCollection", ModifyDenied)
           ELSE IF testId \notin DOMAIN tests
           THEN CollThrow("addTestToCollection", "Test not found.")
           ELSE IF /\ tests[testId].ownerId # s.userId
                   /\ tests[testId].status # "approved"
           THEN CollThrow("addTestToCollection", TestNotAddable)
           ELSE IF Matching(collectionId, testId)
           THEN CollThrow("addTestToCollection", AlreadyInCollection)
           ELSE /\ RowCount < MaxRows
                /\ collectionTests' =
                      InsertRow(collectionTests, Row(collectionId, testId))
                /\ lastResult' = Result("addTestToCollection", NoStr)
                /\ UNCHANGED <<collections, nextCollectionId>>

RemoveTestFromCollection(token, collectionId, testId) ==
    LET s == RequireUserSession(token)
    IN  /\ CollFrame
        /\ IF ~s.ok THEN CollThrow("removeTestFromCollection", s.err)
           ELSE IF collectionId \notin DOMAIN collections
           THEN CollThrow("removeTestFromCollection", CollectionNotFound)
           ELSE IF collections[collectionId].ownerId # s.userId
           THEN CollThrow("removeTestFromCollection", ModifyDenied)
           ELSE /\ collectionTests' =
                      IF ~Matching(collectionId, testId) THEN collectionTests
                      ELSE DeleteRow(collectionTests,
                                     Row(collectionId, testId))
                /\ lastResult' = Result("removeTestFromCollection", NoStr)
                /\ UNCHANGED <<collections, nextCollectionId>>
\* what getCollectionBySlug answers when it answers null
NoCollection == [collection |-> NoNum, tests |-> {}]

\* .withIndex("by_shareSlug").first(): the oldest collection with the slug
FirstBySlug(slug) ==
    LET found == {c \in DOMAIN collections : collections[c].shareSlug = slug}
    IN  IF found = {} THEN NoNum
        ELSE CHOOSE c \in found : \A d \in found : c <= d

\* getCollectionBySlug without the isPublic test
CollectionBySlugAnyCollection(slug) ==
    LET c == FirstBySlug(slug)
    IN  IF c = NoNum THEN NoCollection
        ELSE [collection |-> c,
              tests |-> {r.testId : r \in RowsOf(c)} \cap DOMAIN tests]

\* getCollectionBySlug: the collection it returns and the tests it returns
\* with it, those of the rows whose test still exists
CollectionBySlug(slug) ==
    LET c == FirstBySlug(slug)
    IN  IF c = NoNum THEN NoCollection
        ELSE IF ~collections[c].isPublic THEN NoCollection
        ELSE [collection |-> c,
              tests |-> {r.testId : r \in RowsOf(c)} \cap DOMAIN tests]

GetCollectionBySlug(slug) ==
    /\ CollFrame
    /\ UNCHANGED collectionVars
    /\ lastResult' =
          [op |-> "getCollectionBySlug",
           err |-> IF CollectionBySlug(slug) = NoCollection
                   THEN "null" ELSE NoStr,
           rows |-> CollectionBySlug(slug).tests]

\* getTest: ctx.db.get(args.id)
GetTest(id) ==
    /\ ModFrame
    /\ UNCHANGED <<tests, nextTestId>>
    /\ lastResult' =
          [op |-> "getTest",
           err |-> IF id \in DOMAIN tests THEN NoStr ELSE "null",
           rows |-> {id} \cap DOMAIN tests]

\* the wall clock moves on between two calls
Tick ==
    /\ now < MaxClock
    /\ now' = now + 1
    /\ UNCHANGED <<userSessions, loggedOut, adminSessions, tests, nextTestId, lastResult,
                   runs, nextRunId, pc, loc, posts, writes, urlIn, urlOut,
                   passIn, passOut,
                   adminRateLimits, failLog, engineUsage,
          engineVars, collectionVars>>

(***************************************************************************)
(* Table testRuns and startTestRun                                         *)
(***************************************************************************)
RunIds == 1..MaxRuns
Procs == {"p1", "p2"}      \* concurrent invocations of executeTestRun

\* an optional boolean: <<>> when absent
NoBool == <<>>
Some(b) == <<b>>

RunFrame == UNCHANGED <<userSessions, loggedOut, adminSessions, urlIn, urlOut,
                        passIn, passOut,
                        adminRateLimits, failLog, engineUsage,
          engineVars, collectionVars>>

\* ctx.db.insert("testRuns", ...) of startTestRun
NewRunDoc(testId, userId, botUrl) ==
    [testId |-> testId, userId |-> userId, botUrl |-> botUrl,
     status |-> "running", move |-> NoStr, shout |-> NoStr, passed |-> NoBool,
     error |-> NoStr, httpStatus |-> NoNum, rawResponse |-> NoNum,
     responseTimeMs |-> NoNum, startedAt |-> now, completedAt |-> NoNum]
\* startTestRun without the lookup of the test
StartTestRunNoTestCheck(token, testId, botUrl) ==
    LET s == RequireUserSession(token)
    IN  /\ RunFrame
        /\ UNCHANGED <<now, tests, nextTestId, pc, loc, posts, writes>>
        /\ IF ~s.ok
           THEN /\ lastResult' = Result("startTestRun", s.err)
                /\ UNCHANGED <<runs, nextRunId>>
           ELSE /\ nextRunId <= MaxRuns
                /\ runs' = Insert(runs, nextRunId,
                                  NewRunDoc(testId, s.userId, botUrl))
                /\ nextRunId' = nextRunId + 1
                /\ lastResult' = Result("startTestRun", NoStr)

StartTestRun(token, testId, botUrl) ==
    LET s == RequireUserSession(token)
    IN  /\ RunFrame
        /\ UNCHANGED <<now, tests, nextTestId, pc, loc, posts, writes>>
        /\ IF ~s.ok
           THEN /\ lastResult' = Result("startTestRun", s.err)
                /\ UNCHANGED <<runs, nextRunId>>
           ELSE IF testId \notin DOMAIN tests
           THEN /\ lastResult' = Result("startTestRun", "Test not found.")
                /\ UNCHANGED <<runs, nextRunId>>
           ELSE /\ nextRunId <= MaxRuns
                /\ runs' = Insert(runs, nextRunId,
                                  NewRunDoc(testId, s.userId, botUrl))
                /\ nextRunId' = nextRunId + 1
                /\ lastResult' = Result("startTestRun", NoStr)

(***************************************************************************)
(* What the bot answers                                                    *)
(***************************************************************************)
\* A property of the parsed JSON value: absent, a string, or something else.
Field(type, val) == [type |-> type, val |-> val]
NoField == Field("undefined", NoStr)

\* JSON.parse(responseText); data stays null when the body is empty
Json(kind, move, shout) == [kind |-> kind, move |-> move, shout |-> shout]
JsonNull == Json("null", NoField, NoField)

RAW_LIMIT == 1000

\* net: whether fetch and the read of the body resolved ("error": one of
\* them rejected); status: response.status; body: what
\* response.text() holds; textLen / jsonLen: the length of that text and of
\* JSON.stringify(data)
Response(net, status, body, data, textLen, jsonLen) ==
    [net |-> net, status |-> status, body |-> body, data |-> data,
     textLen |-> textLen, jsonLen |-> jsonLen]

NoResponse == Response("none", NoNum, "none", JsonNull, 0, 0)

\* what the bot may put in move or shout
MoveFields ==
    { NoField, Field("string", "up"), Field("string", "Up"),
      Field("string", " up"), Field("string", "down"), Field("string", ""),
      Field("number", "1"), Field("null", "null") }
ShoutFields == { NoField, Field("string", "hi"), Field("number", "1") }
HttpStatuses == {200, 204, 404, 500}

\* every answer the pipeline tells apart: no answer at all, a body that is
\* not JSON, an empty body, JSON that is no object, and JSON objects
BotResponses ==
    { Response("error", NoNum, "none", JsonNull, 0, 0) }
    \cup { Response("ok", st, "nonjson", JsonNull, len, 0) :
              st \in HttpStatuses, len \in {15, 1001} }
    \cup { Response("ok", st, "empty", JsonNull, 0, 4) : st \in HttpStatuses }
    \cup { Response("ok", st, "json", Json(k, NoField, NoField), 1200, 1001) :
              st \in HttpStatuses, k \in {"null", "string", "array"} }
    \cup { Response("ok", st, "json", Json("object", m, sh), 20, 20) :
              st \in HttpStatuses, m \in MoveFields, sh \in ShoutFields }

\* the answers the concurrent runs of SpecRun receive: one per branch
RunResponses ==
    { Response("error", NoNum, "none", JsonNull, 0, 0),
      Response("ok", 502, "nonjson", JsonNull, 1001, 0),
      Response("ok", 500, "json",
               Json("object", Field("string", "up"), NoField), 20, 20),
      Response("ok", 200, "json",
               Json("object", Field("string", "up"), NoField), 20, 20),
      Response("ok", 200, "json", Json("object", NoField, NoField), 2, 2) }

Min(a, b) == IF a < b THEN a ELSE b

\* response.ok
ResponseOk(status) == status >= 200 /\ status <= 299

\* typeof data?.move === "string" ? data.move : null
ExtractString(data, field) ==
    IF data.kind = "object" /\ field.type = "string" THEN field.val ELSE NoStr

\* Array.prototype.includes
Includes(seq, x) == \E i \in 1..Len(seq) : seq[i] = x

\* passed, comparing moves without regard to case
PassedIgnoreCase(move, expectedSafeMoves) ==
    LET Lower(m) == IF m = "Up" THEN "up" ELSE m
    IN  move # NoStr /\ \E i \in 1..Len(expectedSafeMoves) :
                            Lower(expectedSafeMoves[i]) = Lower(move)

\* move !== null && test.expectedSafeMoves.includes(move)
Passed(move, expectedSafeMoves) ==
    move # NoStr /\ Includes(expectedSafeMoves, move)

\* the arguments of updateTestRunResult
WriteArgs(status, move, shout, passed, error, httpStatus, rawResponse, ms) ==
    [status |-> status, move |-> move, shout |-> shout, passed |-> passed,
     error |-> error, httpStatus |-> httpStatus, rawResponse |-> rawResponse,
     responseTimeMs |-> ms]

FailedArgs(error) ==
    WriteArgs("failed", NoStr, NoStr, NoBool, error, NoNum, NoNum, NoNum)

NoArgs == WriteArgs("none", NoStr, NoStr, NoBool, NoStr, NoNum, NoNum, NoNum)
\* the response handling with the status test ahead of the parse
HandleResponseStatusFirst(resp, expectedSafeMoves, ms) ==
    IF resp.net = "error"
    THEN FailedArgs("fetch failed")
    ELSE IF ~ResponseOk(resp.status)
    THEN WriteArgs("failed", NoStr, NoStr, NoBool,
                   "HTTP " \o ToString(resp.status),
                   resp.status, Min(resp.jsonLen, RAW_LIMIT), ms)
    ELSE IF resp.body = "nonjson"
    THEN WriteArgs("failed", NoStr, NoStr, NoBool,
                   "Non-JSON response (" \o ToString(resp.status) \o ").",
                   resp.status, Min(resp.textLen, RAW_LIMIT), ms)
    ELSE LET move == ExtractString(resp.data, resp.data.move)
             shout == ExtractString(resp.data, resp.data.shout)
         IN  WriteArgs("completed", move, shout,
                       Some(Passed(move, expectedSafeMoves)), NoStr,
                       resp.status, Min(resp.jsonLen, RAW_LIMIT), ms)

\* lines 1071-1137: from the outcome of fetch to the terminal write
HandleResponse(resp, expectedSafeMoves, ms) ==
    IF resp.net = "error"
    THEN FailedArgs("fetch failed")
    ELSE IF resp.body = "nonjson"
    THEN WriteArgs("failed", NoStr, NoStr, NoBool,
                   "Non-JSON response (" \o ToString(resp.status) \o ").",
                   resp.status, Min(resp.textLen, RAW_LIMIT), ms)
    ELSE IF ~ResponseOk(resp.status)
    THEN WriteArgs("failed", NoStr, NoStr, NoBool,
                   "HTTP " \o ToString(resp.status),
                   resp.status, Min(resp.jsonLen, RAW_LIMIT), ms)
    ELSE LET move == ExtractString(resp.data, resp.data.move)
             shout == ExtractString(resp.data, resp.data.shout)
         IN  WriteArgs("completed", move, shout,
                       Some(Passed(move, expectedSafeMoves)), NoStr,
                       resp.status, Min(resp.jsonLen, RAW_LIMIT), ms)

(***************************************************************************)
(* executeTestRun, one step per await                                      *)
(***************************************************************************)
NoLoc ==
    [runId |-> 0, testId |-> 0, botUrl |-> NoSeq, expectedSafeMoves |-> NoSeq,
     endpoint |-> NoSeq, fetchStart |-> NoNum, args |-> NoArgs,
     guardPassed |-> FALSE, wrote |-> FALSE, error |-> NoStr]

ExecFrame == UNCHANGED <<userSessions, loggedOut, adminSessions, tests, nextTestId,
                         lastResult, nextRunId, urlIn, urlOut, passIn, passOut,
                         adminRateLimits, failLog, engineUsage,
          engineVars, collectionVars>>
\* the guard without the test of the run's status
ExecuteGuardNoStatusCheck(p, runId) ==
    /\ pc[p] = "idle"
    /\ ExecFrame
    /\ UNCHANGED <<now, runs, posts, writes>>
    /\ IF runId \notin DOMAIN runs
       THEN /\ pc' = [pc EXCEPT ![p] = "returned"]
            /\ loc' = [loc EXCEPT ![p] = [NoLoc EXCEPT
                          !.runId = runId, !.error = "Test run not found."]]
       ELSE /\ pc' = [pc EXCEPT ![p] = "getTest"]
            /\ loc' = [loc EXCEPT ![p] = [NoLoc EXCEPT
                          !.runId = runId, !.testId = runs[runId].testId,
                          !.botUrl = runs[runId].botUrl, !.guardPassed = TRUE]]

\* lines 1003-1009: getTestRun and the running-state guard
ExecuteGuard(p, runId) ==
    /\ pc[p] = "idle"
    /\ ExecFrame
    /\ UNCHANGED <<now, runs, posts, writes>>
    /\ IF runId \notin DOMAIN runs
       THEN /\ pc' = [pc EXCEPT ![p] = "returned"]
            /\ loc' = [loc EXCEPT ![p] = [NoLoc EXCEPT
                          !.runId = runId, !.error = "Test run not found."]]
       ELSE IF runs[runId].status # "running"
       THEN /\ pc' = [pc EXCEPT ![p] = "returned"]
            /\ loc' = [loc EXCEPT ![p] = [NoLoc EXCEPT
                          !.runId = runId,
                          !.error = "Test run is not in running state."]]
       ELSE /\ pc' = [pc EXCEPT ![p] = "getTest"]
            /\ loc' = [loc EXCEPT ![p] = [NoLoc EXCEPT
                          !.runId = runId, !.testId = runs[runId].testId,
                          !.botUrl = runs[runId].botUrl, !.guardPassed = TRUE]]

\* lines 1014, 1027, 1037: the three failures found before the call
PreflightError(testId, botUrl) ==
    IF testId \notin DOMAIN tests THEN "Test not found."
    ELSE IF ~YouExists(tests[testId].snakes, tests[testId].youId)
    THEN "You snake not found in test."
    ELSE IF Trim(botUrl) = <<>> THEN "Bot URL is required."
    ELSE NoStr

\* where the handler goes when the blank-URL branch returns without its
\* updateTestRunResult
AfterPreflightSkipBlankUrl(err) ==
    IF err = "Bot URL is required." THEN "returned"
    ELSE IF err # NoStr THEN "write" ELSE "fetch"

\* where the handler goes after the pre-flight checks
AfterPreflight(err) == IF err # NoStr THEN "write" ELSE "fetch"
\* the load of the test returning, without a write, when the test is gone
ExecuteLoadTestReturnsOnMissing(p) ==
    /\ pc[p] = "getTest"
    /\ ExecFrame
    /\ UNCHANGED <<now, runs, posts, writes>>
    /\ LET err == PreflightError(loc[p].testId, loc[p].botUrl)
       IN  /\ pc' = [pc EXCEPT ![p] =
                        IF err = "Test not found." THEN "returned"
                        ELSE AfterPreflight(err)]
           /\ loc' = [loc EXCEPT ![p] =
                IF err # NoStr
                THEN [@ EXCEPT !.args = FailedArgs(err), !.error = err]
                ELSE [@ EXCEPT
                        !.expectedSafeMoves =
                            tests[loc[p].testId].expectedSafeMoves,
                        !.endpoint = BotEndpoint(Trim(loc[p].botUrl))]]

\* lines 1011-1048: getTest, the pre-flight checks and the endpoint
ExecuteLoadTest(p) ==
    /\ pc[p] = "getTest"
    /\ ExecFrame
    /\ UNCHANGED <<now, runs, posts, writes>>
    /\ LET err == PreflightError(loc[p].testId, loc[p].botUrl)
       IN  /\ pc' = [pc EXCEPT ![p] = AfterPreflight(err)]
           /\ loc' = [loc EXCEPT ![p] =
                IF err # NoStr
                THEN [@ EXCEPT !.args = FailedArgs(err), !.error = err]
                ELSE [@ EXCEPT
                        !.expectedSafeMoves =
                            tests[loc[p].testId].expectedSafeMoves,
                        !.endpoint = BotEndpoint(Trim(loc[p].botUrl))]]

\* lines 1072-1077: fetchStart and the POST leaving for the endpoint
ExecuteFetch(p) ==
    /\ pc[p] = "fetch"
    /\ ExecFrame
    /\ UNCHANGED <<now, runs, writes>>
    /\ posts' = [posts EXCEPT ![loc[p].runId] = @ + 1]
    /\ pc' = [pc EXCEPT ![p] = "response"]
    /\ loc' = [loc EXCEPT ![p] = [@ EXCEPT !.fetchStart = now]]

\* lines 1078-1137 up to the terminal write: the outcome of the POST and the
\* arguments the handler prepares for updateTestRunResult
ExecuteResponse(p, resp) ==
    /\ pc[p] = "response"
    /\ ExecFrame
    /\ UNCHANGED <<now, runs, posts, writes>>
    /\ pc' = [pc EXCEPT ![p] = "write"]
    /\ LET args == HandleResponse(resp, loc[p].expectedSafeMoves,
                                  now - loc[p].fetchStart)
       IN  loc' = [loc EXCEPT ![p] =
                     [@ EXCEPT !.args = args, !.error = args.error]]
\* a patch that leaves a field alone when its argument is undefined
UpdateTestRunResultKeepsFields(run, args) ==
    LET Keep(new, old, none) == IF new = none THEN old ELSE new
    IN  [run EXCEPT !.status = args.status,
                    !.move = Keep(args.move, @, NoStr),
                    !.shout = Keep(args.shout, @, NoStr),
                    !.passed = Keep(args.passed, @, NoBool),
                    !.error = Keep(args.error, @, NoStr),
                    !.httpStatus = Keep(args.httpStatus, @, NoNum),
                    !.rawResponse = Keep(args.rawResponse, @, NoNum),
                    !.responseTimeMs = Keep(args.responseTimeMs, @, NoNum),
                    !.completedAt = now]
\* updateTestRunResult that does not stamp completedAt
UpdateTestRunResultNoCompletedAt(run, args) ==
    [run EXCEPT !.status = args.status, !.move = args.move,
                !.shout = args.shout, !.passed = args.passed,
                !.error = args.error, !.httpStatus = args.httpStatus,
                !.rawResponse = args.rawResponse,
                !.responseTimeMs = args.responseTimeMs]

\* updateTestRunResult: ctx.db.patch(runId, {...}); an undefined argument
\* removes the field
UpdateTestRunResult(run, args) ==
    [run EXCEPT !.status = args.status, !.move = args.move,
                !.shout = args.shout, !.passed = args.passed,
                !.error = args.error, !.httpStatus = args.httpStatus,
                !.rawResponse = args.rawResponse,
                !.responseTimeMs = args.responseTimeMs,
                !.completedAt = now]

\* ctx.runMutation(internal.battlesnake.updateTestRunResult, ...) and return
ExecuteWrite(p) ==
    /\ pc[p] = "write"
    /\ ExecFrame
    /\ UNCHANGED <<now, posts>>
    /\ runs' = [runs EXCEPT ![loc[p].runId] =
                   UpdateTestRunResult(@, loc[p].args)]
    /\ writes' = [writes EXCEPT ![loc[p].runId] = @ + 1]
    /\ pc' = [pc EXCEPT ![p] = "returned"]
    /\ loc' = [loc EXCEPT ![p] = [NoLoc EXCEPT
                  !.runId = loc[p].runId, !.guardPassed = TRUE,
                  !.wrote = TRUE, !.error = loc[p].error]]

\* the caller has its result; the slot serves the next invocation
ExecuteDone(p) ==
    /\ pc[p] = "returned"
    /\ ExecFrame
    /\ UNCHANGED <<now, runs, posts, writes>>
    /\ pc' = [pc EXCEPT ![p] = "idle"]
    /\ loc' = [loc EXCEPT ![p] = NoLoc]

(***************************************************************************)
(* SpecPass: lines 1071-1128 on every answer and every expectedSafeMoves   *)
(***************************************************************************)
ExpectedMoves == {"up", "Up", "right"}
PassExpected == UNION {[1..n -> ExpectedMoves] : n \in 0..MaxExpectedLen}

PassHandle ==
    /\ passOut.status = "none"
    /\ passOut' = HandleResponse(passIn.resp, passIn.expectedSafeMoves, 0)
    /\ UNCHANGED <<now, userSessions, loggedOut, adminSessions, tests, nextTestId,
                   lastResult, runs, nextRunId, pc, loc, posts, writes,
                   urlIn, urlOut, passIn,
                   adminRateLimits, failLog, engineUsage,
          engineVars, collectionVars>>

(***************************************************************************)
(* Specifications                                                          *)
(***************************************************************************)
\* board.snakes and youId as callers supply them
CrudBoards ==
    { [youId |-> "a", snakes |-> <<"a">>],
      [youId |-> "a", snakes |-> <<"b", "a">>],
      [youId |-> "b", snakes |-> <<"b", "a">>],
      [youId |-> "b", snakes |-> <<"a">>],
      [youId |-> "a", snakes |-> <<>>] }
ModBoards ==
    { [youId |-> "a", snakes |-> <<"a">>],
      [youId |-> "b", snakes |-> <<"a">>] }
ModExpected == {<<"up">>}
RunBotUrls == {<<" ">>, <<"m", "/">>}
\* the callers of createUserTest: u1 with a live session, and a bad token
SubmitterTokens == {"tok_u1", "tok_unknown"}
\* no user has used the engine yet: both usage fields are absent
InitEngineUsage ==
    [u \in Users |-> [engineUsageCount |-> NoNum,
                      engineUsageResetMonth |-> NoNum]]

SessionsInit ==
    /\ now = 1
    /\ userSessions = InitUserSessions
    /\ loggedOut = {}
    /\ adminSessions = InitAdminSessions
    /\ lastResult = NoResult
    /\ adminRateLimits = EmptyTable
    /\ failLog = [c \in Clients |-> <<>>]
    /\ analysing = NoStr
    /\ enginePosts = 0
    /\ collections = EmptyTable
    /\ nextCollectionId = 1
    /\ collectionTests = EmptyTable

StoreInit == SessionsInit /\ engineUsage = InitEngineUsage

PipelineIdle ==
    /\ runs = EmptyTable
    /\ nextRunId = 1
    /\ pc = [p \in Procs |-> "idle"]
    /\ loc = [p \in Procs |-> NoLoc]
    /\ posts = [r \in RunIds |-> 0]
    /\ writes = [r \in RunIds |-> 0]

UrlIdle == urlIn = <<>> /\ urlOut = UrlPending

NoPassIn == [resp |-> NoResponse, expectedSafeMoves |-> <<>>]

PassIdle == passIn = NoPassIn /\ passOut = NoArgs

InitUrl ==
    /\ StoreInit
    /\ tests = EmptyTable
    /\ nextTestId = 1
    /\ PipelineIdle
    /\ PassIdle
    /\ urlIn \in UrlStrings
    /\ urlOut = UrlPending

NextUrl == UrlRejectBlank \/ UrlResolveEndpoint

SpecUrl == InitUrl /\ [][NextUrl]_vars

InitPass ==
    /\ StoreInit
    /\ tests = EmptyTable
    /\ nextTestId = 1
    /\ PipelineIdle
    /\ UrlIdle
    /\ passIn \in [resp : BotResponses, expectedSafeMoves : PassExpected]
    /\ passOut = NoArgs

NextPass == PassHandle

SpecPass == InitPass /\ [][NextPass]_vars

InitStore ==
    /\ StoreInit
    /\ tests = EmptyTable
    /\ nextTestId = 1
    /\ PipelineIdle
    /\ UrlIdle
    /\ PassIdle

AdminCreates(boards) ==
    \E t \in AdminTokens, b \in boards, e \in ModExpected :
        CreateTest(t, b.youId, b.snakes, e)
AdminUpdates(boards) ==
    \E t \in AdminTokens, id \in TestIds, b \in boards, e \in ModExpected :
        UpdateTest(t, id, b.youId, b.snakes, e)
AdminDeletes == \E t \in AdminTokens, id \in TestIds : DeleteTest(t, id)
UserCreates(boards) ==
    \E t \in SubmitterTokens, b \in boards, e \in ModExpected :
        CreateUserTest(t, b.youId, b.snakes, e)
UserUpdates(boards) ==
    \E t \in UserTokens, id \in TestIds, b \in boards, e \in ModExpected :
        UpdateUserTest(t, id, b.youId, b.snakes, e)
AdminUserUpdates(boards) ==
    \E t \in UserTokens, id \in TestIds, b \in boards, e \in ModExpected :
        AdminUpdateTest(t, id, b.youId, b.snakes, e)
UserDeletes == \E t \in UserTokens, id \in TestIds : DeleteUserTest(t, id)
Approves == \E t \in UserTokens, id \in TestIds : ApproveTest(t, id)
Rejects ==
    \E t \in UserTokens, id \in TestIds, r \in Reasons : RejectTest(t, id, r)
PermaRejects ==
    \E t \in UserTokens, id \in TestIds, r \in Reasons :
        PermaRejectTest(t, id, r)
Resubmits == \E t \in UserTokens, id \in TestIds : ResubmitTest(t, id)
MakesPrivate == \E t \in UserTokens, id \in TestIds : MakeTestPrivate(t, id)

\* the create, update and delete mutations of the tests table
NextCrud ==
    \/ AdminCreates(CrudBoards)
    \/ AdminUpdates(CrudBoards)
    \/ AdminDeletes
    \/ UserCreates(CrudBoards)
    \/ UserUpdates(CrudBoards)
    \/ AdminUserUpdates(CrudBoards)
    \/ UserDeletes

SpecCrud == InitStore /\ [][NextCrud]_vars

\* every mutation of the tests table, moderation included
NextMod ==
    \/ AdminCreates(ModBoards)
    \/ AdminUpdates(ModBoards)
    \/ AdminDeletes
    \/ UserCreates(ModBoards)
    \/ UserUpdates(ModBoards)
    \/ AdminUserUpdates(ModBoards)
    \/ UserDeletes
    \/ Approves
    \/ Rejects
    \/ PermaRejects
    \/ Resubmits
    \/ MakesPrivate

SpecMod == InitStore /\ [][NextMod]_vars
\* the operations behind requireAdmin and the admin flag
ListsPending == \E t \in UserTokens : ListPendingTests(t)
ListsRejected == \E t \in UserTokens : ListRejectedTests(t)
ListsPrivate == \E t \in UserTokens : ListPrivateTests(t)

NextAdmin ==
    \/ UserCreates(ModBoards)
    \/ AdminUserUpdates(ModBoards)
    \/ Approves
    \/ Rejects
    \/ PermaRejects
    \/ MakesPrivate
    \/ ListsPending
    \/ ListsRejected
    \/ ListsPrivate

SpecAdmin == InitStore /\ [][NextAdmin]_vars
\* signing in, while the clock runs
Logins == \E e \in Emails, p \in Passwords, c \in Clients : Login(e, p, c)

NextAuth == Logins \/ Tick

SpecAuth == InitStore /\ [][NextAuth]_vars
\* both sign-in gates at work on the limiter table
VerifiesAdminPassword ==
    \E p \in AdminPasswords, x \in AdminEnv, c \in Clients :
        VerifyAdminPassword(p, x, c)

\* the sessions the two gates open, counted together
SignInsDone == LoginsDone + AdminLoginsDone

LimiterLogins ==
    \E e \in Emails, p \in Passwords, c \in Clients :
        /\ Login(e, p, c)
        /\ lastResult'.err = NoStr => SignInsDone < MaxLogins

LimiterAdminAttempts ==
    /\ VerifiesAdminPassword
    /\ lastResult'.err = NoStr => SignInsDone < MaxLogins

NextLimiter == LimiterLogins \/ LimiterAdminAttempts \/ Tick

SpecLimiter == InitStore /\ [][NextLimiter]_vars
\* the run pipeline starts from a store that holds one submitted test
InitRun ==
    /\ StoreInit
    /\ tests = Insert(EmptyTable, 1,
                      UserTestDoc("u1", "a", <<"a">>, <<"up", "right">>))
    /\ nextTestId = 2
    /\ PipelineIdle
    /\ UrlIdle
    /\ PassIdle

StartsRun ==
    \E t \in {"tok_u1", "tok_expired", "tok_unknown"}, id \in TestIds, u \in RunBotUrls :
        StartTestRun(t, id, u)
OwnerDeletesTest == \E id \in TestIds : DeleteUserTest("tok_u1", id)
Guards == \E p \in Procs, r \in RunIds : ExecuteGuard(p, r)
LoadsTest == \E p \in Procs : ExecuteLoadTest(p)
Fetches == \E p \in Procs : ExecuteFetch(p)
Responds == \E p \in Procs, resp \in RunResponses : ExecuteResponse(p, resp)
Writes == \E p \in Procs : ExecuteWrite(p)
Returns == \E p \in Procs : ExecuteDone(p)

NextRun ==
    \/ StartsRun
    \/ OwnerDeletesTest
    \/ Guards
    \/ LoadsTest
    \/ Fetches
    \/ Responds
    \/ Writes
    \/ Returns

SpecRun == InitRun /\ [][NextRun]_vars

\* an invocation of the action that has started runs on: each of its awaits
\* resolves
RunFairness ==
    \A p \in Procs :
        /\ WF_vars(ExecuteLoadTest(p))
        /\ WF_vars(ExecuteFetch(p))
        /\ WF_vars(\E resp \in RunResponses : ExecuteResponse(p, resp))
        /\ WF_vars(ExecuteWrite(p))

\* the runs whose progress is followed: started by the owner against one bot,
\* which answers with a move or does not answer
StartsOwnRun == \E id \in TestIds : StartTestRun("tok_u1", id, <<"m", "/">>)
BotAnswers ==
    \E p \in Procs :
        \E resp \in { Response("error", NoNum, "none", JsonNull, 0, 0),
                      Response("ok", 200, "json",
                               Json("object", Field("string", "up"), NoField),
                               20, 20) } :
            ExecuteResponse(p, resp)

NextRunFair ==
    \/ StartsOwnRun
    \/ OwnerDeletesTest
    \/ Guards
    \/ LoadsTest
    \/ Fetches
    \/ BotAnswers
    \/ Writes
    \/ Returns

SpecRunFair == InitRun /\ [][NextRunFair]_vars /\ RunFairness
\* the operations that take a session token
GetsCurrentUser == \E t \in SessionTokens : GetCurrentUser(t)
ChecksEngineAccess == \E t \in SessionTokens : CheckEngineAccess(t)
IncrementsEngineUsage == \E t \in SessionTokens : IncrementEngineUsage(t)
AnalyseCalls ==
    \E t \in SessionTokens, c \in BOOLEAN, y \in BOOLEAN : AnalyseCall(t, c, y)
AnalyseFetches == \E r \in EngineReplies : AnalyseFetch(r)

NextSession ==
    \/ UserCreates(ModBoards)
    \/ UserUpdates(ModBoards)
    \/ UserDeletes
    \/ AdminDeletes
    \/ Approves
    \/ Resubmits
    \/ ListsPending
    \/ StartsRun
    \/ GetsCurrentUser
    \/ ChecksEngineAccess
    \/ IncrementsEngineUsage
    \/ AnalyseCalls
    \/ AnalyseFetches

SpecSession == InitStore /\ [][NextSession]_vars
\* signing in and out, and the tokens then presented again
LogoutTokens ==
    {"tok_u1", "tok_expired", "tok_unknown"}
        \cup {LoginTokens[i] : i \in 1..MaxLogins}
SignsIn == \E c \in Clients : Login("u1@x", "pw_u1", c)
Logouts == \E t \in LogoutTokens : Logout(t)
PresentsToUser == \E t \in LogoutTokens : GetCurrentUser(t)
PresentsToEngineCheck == \E t \in LogoutTokens : CheckEngineAccess(t)
\* the engine is asked with the tokens that have no session any more
PresentsToEngine ==
    \E t \in LogoutTokens \ DOMAIN userSessions : IncrementEngineUsage(t)
PresentsToRun ==
    \E t \in LogoutTokens, id \in TestIds : StartTestRun(t, id, <<"m", "/">>)

NextLogout ==
    \/ SignsIn
    \/ Logouts
    \/ PresentsToUser
    \/ PresentsToEngineCheck
    \/ PresentsToEngine
    \/ PresentsToRun
    \/ Tick

SpecLogout == InitStore /\ [][NextLogout]_vars

\* the engine operations over two calendar months.  A user may have used
\* the engine before: u1 in the month before the first one modelled, the
\* users that carry a flag before the flag was set.
UsedBefore(count, month) ==
    [engineUsageCount |-> count, engineUsageResetMonth |-> month]
EngineUsageInits ==
    {[u \in Users |->
         IF u = "u1" THEN (IF old THEN UsedBefore(MONTHLY_ENGINE_LIMIT,
                                                  GetCurrentMonth - 1)
                           ELSE InitEngineUsage[u])
         ELSE IF flagged THEN UsedBefore(MONTHLY_ENGINE_LIMIT - 2,
                                         GetCurrentMonth)
         ELSE InitEngineUsage[u]] : old \in BOOLEAN, flagged \in BOOLEAN}

InitEngine ==
    /\ SessionsInit
    /\ engineUsage \in EngineUsageInits
    /\ tests = EmptyTable
    /\ nextTestId = 1
    /\ PipelineIdle
    /\ UrlIdle
    /\ PassIdle

NextEngine ==
    \/ ChecksEngineAccess
    \/ IncrementsEngineUsage
    \/ AnalyseCalls
    \/ AnalyseFetches
    \/ Tick

SpecEngine == InitEngine /\ [][NextEngine]_vars
\* the collection mutations called by owners and by others, on a store that
\* holds one approved test
CollTokens == {"tok_u1", "tok_u2", "tok_a1"}

InitColl ==
    /\ StoreInit
    /\ tests = Insert(EmptyTable, 1,
                      [UserTestDoc("u2", "a", <<"a">>, <<"up">>)
                          EXCEPT !.status = "approved"])
    /\ nextTestId = 2
    /\ PipelineIdle
    /\ UrlIdle
    /\ PassIdle

CreatesCollection ==
    \E t \in {"tok_u1", "tok_unknown"} :
        CreateCollection(t, "n1", NoStr, FALSE, "slug1")
UpdatesCollection ==
    \E t \in CollTokens, id \in CollectionIds :
        UpdateCollection(t, id, "n2", "d", TRUE)
DeletesCollection ==
    \E t \in CollTokens, id \in CollectionIds : DeleteCollection(t, id)
RegeneratesShareSlug ==
    \E t \in CollTokens, id \in CollectionIds, sl \in Slugs :
        RegenerateShareSlug(t, id, sl)
AddsTest ==
    \E t \in CollTokens, c \in CollectionIds, id \in TestIds :
        AddTestToCollection(t, c, id)
RemovesTest ==
    \E t \in CollTokens, c \in CollectionIds, id \in TestIds :
        RemoveTestFromCollection(t, c, id)

NextColl ==
    \/ CreatesCollection
    \/ UpdatesCollection
    \/ DeletesCollection
    \/ RegeneratesShareSlug
    \/ AddsTest
    \/ RemovesTest

SpecColl == InitColl /\ [][NextColl]_vars

\* membership: one test that some user submitted and the moderators have
\* or have not handled, added to and removed from collections, and the two
\* deletions of a test
MemberTests ==
    {[UserTestDoc(o, "a", <<"a">>, <<"up">>) EXCEPT !.status = st] :
        o \in {"u1", "u2"}, st \in Statuses}
    \cup {AdminTestDoc("a", <<"a">>, <<"up">>)}

InitMember ==
    /\ StoreInit
    /\ \E t \in MemberTests : tests = Insert(EmptyTable, 1, t)
    /\ nextTestId = 2
    /\ PipelineIdle
    /\ UrlIdle
    /\ PassIdle

NextMember ==
    \/ CreatesCollection
    \/ AddsTest
    \/ RemovesTest
    \/ UserDeletes
    \/ AdminDeletes

SpecMember == InitMember /\ [][NextMember]_vars
\* sharing: u1 creates public collections under slugs that may collide,
\* fills them, makes them private or public again, and anyone reads
\* without a session
SharesCollection ==
    \E sl \in Slugs : CreateCollection("tok_u1", "n1", NoStr, TRUE, sl)
SetsPublic ==
    \E id \in CollectionIds, pub \in BOOLEAN :
        UpdateCollection("tok_u1", id, "n1", NoStr, pub)
AddsToShared ==
    \E c \in CollectionIds, id \in TestIds : AddTestToCollection("tok_u1", c, id)
GetsBySlug == \E sl \in Slugs : GetCollectionBySlug(sl)
GetsTest == \E id \in TestIds : GetTest(id)
ListsTests ==
    /\ ModFrame
    /\ UNCHANGED <<tests, nextTestId>>
    /\ lastResult' = ResultRows("listTests", ListTests)
ListsPublicTests ==
    /\ ModFrame
    /\ UNCHANGED <<tests, nextTestId>>
    /\ lastResult' = ResultRows("listPublicTests", ListPublicTests)

NextShare ==
    \/ SharesCollection
    \/ SetsPublic
    \/ AddsToShared
    \/ GetsBySlug
    \/ GetsTest
    \/ ListsTests
    \/ ListsPublicTests

SpecShare == InitMember /\ [][NextShare]_vars

\* all operations together
Init == InitStore
Next ==
    \/ NextCrud
    \/ NextMod
    \/ NextAdmin
    \/ NextAuth
    \/ NextSession
    \/ NextEngine
    \/ NextColl
    \/ NextMember
    \/ NextRun
    \/ Tick
Spec == Init /\ [][Next]_vars

(***************************************************************************)
(* Properties                                                              *)
(***************************************************************************)
Terminal == {"completed", "failed"}

\* the user a token with a live session stands for
LiveTokens == {"tok_u1", "tok_u2", "tok_a1"}
SessionUser(token) == userSessions[token].userId

\* C1: under any interleaving of executeTestRun invocations a run row gets
\* at most one terminal write, and once its status is completed or failed
\* no field of the row changes again.
C1_SingleTerminalWrite ==
    [][\A r \in RunIds :
          /\ writes'[r] <= 1
          /\ (r \in DOMAIN runs /\ runs[r].status \in Terminal)
                => runs'[r] = runs[r]]_vars

\* C2: for one run id at most one POST is issued to the bot endpoint.
C2_SinglePost == \A r \in RunIds : posts[r] <= 1

\* C3: an invocation that passed the running-state guard has written a
\* terminal status to its run by the time it returns, on every branch.
C3_TerminalWriteBeforeReturn ==
    \A p \in Procs :
        (pc[p] = "returned" /\ loc[p].guardPassed)
            => /\ loc[p].wrote
               /\ runs[loc[p].runId].status \in Terminal

C3_Witness ==
    \E p \in Procs :
        /\ pc[p] = "returned"
        /\ loc[p].guardPassed
        /\ loc[p].error = "Bot URL is required."
        /\ runs[loc[p].runId].status = "failed"

\* C4: on a completed run, passed is true iff the response's move is a
\* string that is, exactly as sent, an element of expectedSafeMoves; a
\* missing or non-string move is recorded as no move with passed = false,
\* and a 2xx JSON answer never ends the run failed.
C4_PassedIffMoveExpected ==
    LET data == passIn.resp.data
        isString == data.kind = "object" /\ data.move.type = "string"
        expected == {passIn.expectedSafeMoves[i] :
                        i \in DOMAIN passIn.expectedSafeMoves}
        answered == /\ passIn.resp.net = "ok"
                    /\ passIn.resp.body \in {"json", "empty"}
                    /\ passIn.resp.status \in 200..299
    IN  /\ passOut.status = "completed"
            => /\ passOut.passed = <<isString /\ data.move.val \in expected>>
               /\ passOut.move = (IF isString THEN data.move.val ELSE NoStr)
               /\ passOut.error = NoStr
        /\ (passOut.status # "none" /\ answered)
            => passOut.status = "completed"

C4_Witness ==
    /\ passOut.status = "completed"
    /\ passIn.resp.data.move = Field("string", "Up")
    /\ passIn.expectedSafeMoves = <<"up", "right">>
    /\ passOut.passed = <<FALSE>>
    /\ passOut.move = "Up"

\* C5: for a non-blank botUrl the endpoint called is the URL without the
\* spaces around it and without its trailing slashes, followed by "/move"
\* unless that already ends with "/move"; the endpoint always ends with
\* "/move", and normalising an endpoint returns it unchanged.
C5_EndpointNormalization ==
    urlOut.kind = "endpoint" =>
        LET e == urlOut.endpoint
            n == Len(urlIn)
            IsCore(a, b) ==        \* urlIn[a..b] is urlIn without outer spaces
                /\ urlIn[a] # " " /\ urlIn[b] # " "
                /\ \A i \in 1..n : (i < a \/ i > b) => urlIn[i] = " "
            IsBase(a, b, c) ==     \* urlIn[a..c] is the core without slashes
                /\ \A i \in (c + 1)..b : urlIn[i] = "/"
                /\ (c >= a => urlIn[c] # "/")
        IN  /\ \E a \in 1..n, b \in 1..n : a <= b /\ IsCore(a, b)
            /\ \A a \in 1..n, b \in 1..n :
                   (a <= b /\ IsCore(a, b)) =>
                       \A c \in (a - 1)..b :
                           IsBase(a, b, c) =>
                               LET base == SubSeq(urlIn, a, c)
                               IN  e = IF EndsWith(base, MoveSuffix)
                                       THEN base
                                       ELSE base \o MoveSuffix
            /\ EndsWith(e, MoveSuffix)
            /\ BotEndpoint(Trim(e)) = e

C5_Witness ==
    /\ urlIn = <<"/", "m", "o", "v", "e", "/">>
    /\ urlOut = [kind |-> "endpoint", endpoint |-> MoveSuffix]

\* C6: every stored test's youId is the id of one of its snakes, and a
\* create or update called with a youId that names no snake of its board
\* fails and leaves the tests table unchanged.
C6_YouIdNamesASnake ==
    /\ [](\A id \in DOMAIN tests :
            \E i \in DOMAIN tests[id].snakes :
                tests[id].snakes[i] = tests[id].youId)
    /\ [][\A b \in CrudBoards :
            ((\A i \in DOMAIN b.snakes : b.snakes[i] # b.youId)
              /\ \E e \in ModExpected :
                    \/ \E t \in AdminTokens :
                          \/ CreateTest(t, b.youId, b.snakes, e)
                          \/ \E id \in TestIds :
                                UpdateTest(t, id, b.youId, b.snakes, e)
                    \/ \E t \in UserTokens \cup SubmitterTokens :
                          \/ CreateUserTest(t, b.youId, b.snakes, e)
                          \/ \E id \in TestIds :
                                \/ UpdateUserTest(t, id, b.youId, b.snakes, e)
                                \/ AdminUpdateTest(t, id, b.youId, b.snakes, e))
            => (lastResult'.err # NoStr /\ tests' = tests)]_vars

C6_Witness ==
    /\ lastResult = Result("updateUserTest", YouError)
    /\ \E id \in DOMAIN tests : tests[id].ownerId = "u1"

\* C7: the public listing holds exactly the stored tests whose status is
\* approved: never one that is pending, rejected, private or without status.
C7_PublicListingOnlyApproved ==
    /\ ListPublicTests \subseteq DOMAIN tests
    /\ \A id \in DOMAIN tests :
          /\ tests[id].status = "approved" => id \in ListPublicTests
          /\ tests[id].status \in {"pending", "rejected", "private", NoStr}
                => id \notin ListPublicTests

C7_Witness ==
    /\ ListPublicTests # {}
    /\ lastResult = Result("approveTest", NoStr)

\* C8 as stated: resubmitTest on a rejected test with permaRejected = true
\* fails with the "cannot be resubmitted" error for every caller, and leaves
\* the test unchanged.
C8_CannotBeResubmittedForEveryCaller ==
    [][\A t \in LiveTokens, id \in TestIds :
          (/\ id \in DOMAIN tests
           /\ tests[id].status = "rejected"
           /\ tests[id].permaRejected
           /\ ResubmitTest(t, id))
          => (lastResult'.err = PermaRejectedError /\ tests' = tests)]_vars

\* C8 as amended: resubmitTest on a rejected test with permaRejected = true
\* fails for every caller and leaves the test unchanged; the error is
\* "cannot be resubmitted" for the owner and the permission error for every
\* other signed-in caller.
C8_PermaRejectedResubmitFails ==
    [][\A t \in UserTokens, id \in TestIds :
          (/\ id \in DOMAIN tests
           /\ tests[id].status = "rejected"
           /\ tests[id].permaRejected
           /\ lastResult'.op = "resubmitTest"
           /\ ResubmitTest(t, id))
          => /\ lastResult'.err # NoStr
             /\ tests' = tests
             /\ t \in LiveTokens =>
                   lastResult'.err =
                       IF SessionUser(t) = tests[id].ownerId
                       THEN PermaRejectedError
                       ELSE NotOwnerResubmit]_vars

C8_Witness ==
    /\ lastResult = Result("resubmitTest", PermaRejectedError)
    /\ \E id \in DOMAIN tests :
          tests[id].status = "rejected" /\ tests[id].permaRejected

\* C9: resubmitTest succeeds only for the owner of a test that is rejected
\* and not perma-rejected; it then sets status pending and clears the
\* rejection reason; in every other case it fails and changes no test.
\* (Every resubmitTest step records its name in lastResult, so the first
\* conjunct only selects the steps of that handler.)
C9_ResubmitOnlyOwnerOfRejected ==
    [][\A t \in UserTokens, id \in TestIds :
          (lastResult'.op = "resubmitTest" /\ ResubmitTest(t, id)) =>
            IF /\ t \in LiveTokens
               /\ id \in DOMAIN tests
               /\ tests[id].ownerId = SessionUser(t)
               /\ tests[id].status = "rejected"
               /\ ~tests[id].permaRejected
            THEN /\ lastResult'.err = NoStr
                 /\ tests' = [tests EXCEPT ![id] =
                                [@ EXCEPT !.status = "pending",
                                          !.rejectionReason = NoStr]]
            ELSE /\ lastResult'.err # NoStr
                 /\ tests' = tests]_vars

C9_Witness ==
    /\ lastResult = Result("resubmitTest", NoStr)
    /\ \E id \in DOMAIN tests :
          /\ tests[id].status = "pending"
          /\ tests[id].rejectionReason = NoStr
          /\ tests[id].approvedBy # NoStr

\* C10: once a test is perma-rejected, no resubmitTest or updateUserTest of
\* its owner moves it out of status rejected.
C10_PermaRejectTerminalForOwner ==
    [][\A id \in DOMAIN tests :
          (/\ tests[id].permaRejected
           /\ tests[id].status = "rejected"
           /\ lastResult'.op \in {"resubmitTest", "updateUserTest"})
          => (id \in DOMAIN tests' /\ tests'[id].status = "rejected")]_vars

\* C11: permaRejected is sticky: a test that has permaRejected = true keeps
\* it in every later state in which the test is still stored.
C11_PermaRejectedSticky ==
    [][\A id \in DOMAIN tests :
          (tests[id].permaRejected /\ id \in DOMAIN tests')
          => tests'[id].permaRejected]_vars

C11_Witness ==
    \E id \in DOMAIN tests :
        /\ tests[id].permaRejected
        /\ tests[id].status = "private"

\* C12: a successful updateUserTest leaves the test in status pending,
\* whatever its status was, and so outside the public listing.
C12_OwnerEditForcesPending ==
    [][\A t \in UserTokens, id \in TestIds, b \in ModBoards, e \in ModExpected :
          (/\ lastResult'.op = "updateUserTest"
           /\ lastResult'.err = NoStr
           /\ UpdateUserTest(t, id, b.youId, b.snakes, e))
          => /\ tests'[id].status = "pending"
             /\ id \notin ListPublicTests']_vars

C12_Witness ==
    /\ lastResult = Result("updateUserTest", NoStr)
    /\ \E id \in DOMAIN tests :
          /\ tests[id].status = "pending"
          /\ tests[id].approvedBy # NoStr
          /\ id \notin ListPublicTests

\* C13: a successful updateUserTest of a test that carried a rejectionReason
\* leaves the test without a rejectionReason.
C13_OwnerEditClearsReason ==
    [][\A t \in UserTokens, id \in TestIds, b \in ModBoards, e \in ModExpected :
          (/\ lastResult'.op = "updateUserTest"
           /\ lastResult'.err = NoStr
           /\ id \in DOMAIN tests
           /\ tests[id].rejectionReason # NoStr
           /\ UpdateUserTest(t, id, b.youId, b.snakes, e))
          => tests'[id].rejectionReason = NoStr]_vars

\* C14: approveTest called by an admin on a stored test succeeds whatever the
\* state of the test; afterwards the test is approved, approvedBy is the
\* caller, approvedAt is set and rejectionReason is absent.
C14_ApproveFromAnyState ==
    [][\A t \in LiveTokens, id \in TestIds :
          (/\ lastResult'.op = "approveTest"
           /\ UsersTable[SessionUser(t)].isAdmin
           /\ id \in DOMAIN tests
           /\ ApproveTest(t, id))
          => /\ lastResult'.err = NoStr
             /\ tests'[id].status = "approved"
             /\ tests'[id].approvedBy = SessionUser(t)
             /\ tests'[id].approvedAt # NoNum
             /\ tests'[id].rejectionReason = NoStr]_vars

C14_Witness ==
    /\ lastResult = Result("approveTest", NoStr)
    /\ \E id \in DOMAIN tests :
          /\ tests[id].status = "approved"
          /\ tests[id].permaRejected
          /\ tests[id].approvedBy = "a1"

\* C15 as stated: after a successful rejectTest the test is rejected with
\* the supplied reason (absent when none is given) and permaRejected is
\* unset or false.
C15_RejectLeavesPermaUnset ==
    [][\A t \in UserTokens, id \in TestIds, r \in Reasons :
          (/\ lastResult'.op = "rejectTest"
           /\ lastResult'.err = NoStr
           /\ RejectTest(t, id, r))
          => /\ tests'[id].status = "rejected"
             /\ tests'[id].rejectionReason = r
             /\ ~tests'[id].permaRejected]_vars

\* C15 as amended: after a successful rejectTest the test is rejected with
\* the supplied reason (absent when none is given) and permaRejected is what
\* it was before: false or unset unless the test was perma-rejected.
C15_RejectKeepsPerma ==
    [][\A t \in UserTokens, id \in TestIds, r \in Reasons :
          (/\ lastResult'.op = "rejectTest"
           /\ lastResult'.err = NoStr
           /\ RejectTest(t, id, r))
          => /\ tests'[id].status = "rejected"
             /\ tests'[id].rejectionReason = r
             /\ tests'[id].permaRejected = tests[id].permaRejected]_vars

C15_Witness ==
    /\ lastResult = Result("rejectTest", NoStr)
    /\ \E id \in DOMAIN tests :
          /\ tests[id].status = "rejected"
          /\ tests[id].permaRejected
          /\ tests[id].approvedBy # NoStr

\* C16: every admin-only operation called with the live session of a user
\* whose isAdmin is false fails with "Admin access required.", returns no
\* rows and leaves every test unchanged.
C16_AdminRequired ==
    [][\A t \in LiveTokens :
          ~UsersTable[SessionUser(t)].isAdmin =>
            LET Denied == /\ lastResult'.err = "Admin access required."
                          /\ lastResult'.rows = {}
                          /\ tests' = tests
                Called(op, A) == (lastResult'.op = op /\ A) => Denied
            IN  /\ Called("listPendingTests", ListPendingTests(t))
                /\ Called("listRejectedTests", ListRejectedTests(t))
                /\ Called("listPrivateTests", ListPrivateTests(t))
                /\ \A id \in TestIds :
                      /\ Called("approveTest", ApproveTest(t, id))
                      /\ Called("makeTestPrivate", MakeTestPrivate(t, id))
                      /\ \A r \in Reasons :
                            /\ Called("rejectTest", RejectTest(t, id, r))
                            /\ Called("permaRejectTest",
                                      PermaRejectTest(t, id, r))
                      /\ \A b \in ModBoards, e \in ModExpected :
                            Called("adminUpdateTest",
                                   AdminUpdateTest(t, id, b.youId, b.snakes, e))]_vars

C16_Witness ==
    /\ lastResult = Result("listPendingTests", "Admin access required.")
    /\ QueryByStatus("pending") # {}

TooManyAttempts == "Too many attempts. Try again later."

\* the limiter of clientId holds a block that has not run out
BlockPending(clientId) ==
    /\ clientId \in DOMAIN adminRateLimits
    /\ adminRateLimits[clientId].blockedUntil # NoNum
    /\ now < adminRateLimits[clientId].blockedUntil

\* C17 as stated: once a clientId has 5 failed logins (no successful one
\* between them) whose times lie less than 5 minutes apart, its limiter
\* holds blockedUntil = time of the 5th failure + 5 minutes.
C17_FiveFailuresInAnyWindowBlock ==
    \A c \in Clients :
        LET log == failLog[c]
        IN  (/\ Len(log) = RATE_LIMIT_MAX_ATTEMPTS
             /\ log[RATE_LIMIT_MAX_ATTEMPTS] - log[1] < RATE_LIMIT_WINDOW_MS)
            => /\ c \in DOMAIN adminRateLimits
               /\ adminRateLimits[c].blockedUntil =
                      log[RATE_LIMIT_MAX_ATTEMPTS] + RATE_LIMIT_WINDOW_MS

\* C17 as amended: failures are counted in the limiter's own window, which
\* opens at the first failure recorded (or at the last successful login, or
\* at the first failure after the window ran out) and lasts 5 minutes; the
\* 5th failure counted in it sets blockedUntil = now + 5 minutes, and while
\* now < blockedUntil every login, whatever its credentials, is rejected
\* with the "too many attempts" error, creates no session and leaves the
\* limiter as it is.
C17_FiveFailuresInLimiterWindowBlock ==
    [][\A e \in Emails, p \in Passwords, c \in Clients :
          (lastResult'.op = "login" /\ Login(e, p, c)) =>
            LET has == c \in DOMAIN adminRateLimits
                failed == lastResult'.err = "Invalid email or password."
                inWindow == has /\ now - adminRateLimits[c].windowStart
                                       < RATE_LIMIT_WINDOW_MS
            IN  /\ BlockPending(c) =>
                      /\ lastResult'.err = TooManyAttempts
                      /\ userSessions' = userSessions
                      /\ adminRateLimits' = adminRateLimits
                /\ (failed /\ inWindow) =>
                      /\ adminRateLimits'[c].attempts =
                             adminRateLimits[c].attempts + 1
                      /\ adminRateLimits'[c].windowStart =
                             adminRateLimits[c].windowStart
                /\ (failed /\ ~inWindow) =>
                      /\ adminRateLimits'[c].attempts = 1
                      /\ adminRateLimits'[c].windowStart = now
                /\ failed =>
                      adminRateLimits'[c].blockedUntil =
                          IF adminRateLimits'[c].attempts
                                 >= RATE_LIMIT_MAX_ATTEMPTS
                          THEN now + RATE_LIMIT_WINDOW_MS
                          ELSE NoNum]_vars

C17_Witness ==
    /\ lastResult = Result("login", TooManyAttempts)
    /\ BlockPending("c1")
    /\ adminRateLimits["c1"].attempts = RATE_LIMIT_MAX_ATTEMPTS
    /\ now > failLog["c1"][RATE_LIMIT_MAX_ATTEMPTS]

\* C18: a successful login resets the limiter of its clientId, when there
\* is one, to attempts = 0 with no blockedUntil; and a limiter never holds a
\* pending block unless 5 logins failed since the last successful one.
C18_SuccessResetsLimiter ==
    [][\A c \in Clients :
          /\ \A e \in Emails, p \in Passwords :
                (/\ lastResult'.op = "login"
                 /\ lastResult'.err = NoStr
                 /\ Login(e, p, c))
                => IF c \in DOMAIN adminRateLimits
                   THEN /\ adminRateLimits'[c].attempts = 0
                        /\ adminRateLimits'[c].blockedUntil = NoNum
                   ELSE c \notin DOMAIN adminRateLimits'
          /\ (/\ c \in DOMAIN adminRateLimits'
              /\ adminRateLimits'[c].blockedUntil # NoNum
              /\ now' < adminRateLimits'[c].blockedUntil)
             => Len(failLog'[c]) = RATE_LIMIT_MAX_ATTEMPTS]_vars

C18_Witness ==
    /\ lastResult = Result("login", NoStr)
    /\ "c1" \in DOMAIN adminRateLimits
    /\ adminRateLimits["c1"].attempts = 0
    /\ adminRateLimits["c1"].windowStart > 1
    /\ failLog["c1"] = <<>>

\* the token maps to no session, or to one with expiresAt < now
DeadToken(token) ==
    \/ token \notin DOMAIN userSessions
    \/ userSessions[token].expiresAt < now

\* the store: every table, without the record of the last call
store == <<userSessions, adminSessions, tests, nextTestId, runs, nextRunId,
           adminRateLimits, engineUsage, collections, collectionTests>>

\* C19: an operation called with a token that maps to no session, or to an
\* expired one, does not succeed and changes nothing in the store.
C19_DeadTokenNeverSucceeds ==
    [][\A t \in SessionTokens :
          DeadToken(t) =>
            LET Refused == lastResult'.err # NoStr /\ UNCHANGED store
                Called(op, A) == (lastResult'.op = op /\ A) => Refused
            IN  /\ Called("getCurrentUser", GetCurrentUser(t))
                /\ Called("checkEngineAccess", CheckEngineAccess(t))
                /\ Called("incrementEngineUsage", IncrementEngineUsage(t))
                /\ \A c \in BOOLEAN, y \in BOOLEAN :
                      (/\ lastResult'.op \in {"analyseWithEngine",
                                              "incrementEngineUsage"}
                       /\ AnalyseCall(t, c, y)) => Refused
                /\ Called("listPendingTests", ListPendingTests(t))
                /\ \A id \in TestIds :
                      /\ Called("approveTest", ApproveTest(t, id))
                      /\ Called("resubmitTest", ResubmitTest(t, id))
                      /\ Called("deleteUserTest", DeleteUserTest(t, id))
                      /\ \A u \in RunBotUrls :
                            Called("startTestRun", StartTestRun(t, id, u))
                      /\ \A b \in ModBoards, e \in ModExpected :
                            /\ Called("updateUserTest",
                                      UpdateUserTest(t, id, b.youId, b.snakes, e))
                /\ \A b \in ModBoards, e \in ModExpected :
                      Called("createUserTest",
                             CreateUserTest(t, b.youId, b.snakes, e))]_vars

\* C20: a call made with the token of an expired session deletes the
\* session row: after it the store holds no session for the token.
C20_ExpiredSessionDeletedOnAccess ==
    [][/\ \A t \in DOMAIN userSessions :
             userSessions[t].expiresAt < now =>
               LET Called(op, A) ==
                       (lastResult'.op = op /\ A) => t \notin DOMAIN userSessions'
               IN  /\ Called("getCurrentUser", GetCurrentUser(t))
                   /\ Called("checkEngineAccess", CheckEngineAccess(t))
                   /\ Called("listPendingTests", ListPendingTests(t))
                   /\ \A id \in TestIds :
                         /\ Called("approveTest", ApproveTest(t, id))
                         /\ Called("resubmitTest", ResubmitTest(t, id))
                         /\ Called("deleteUserTest", DeleteUserTest(t, id))
       /\ \A t \in DOMAIN adminSessions :
             adminSessions[t].expiresAt < now =>
               \A id \in TestIds :
                   (lastResult'.op = "deleteTest" /\ DeleteTest(t, id))
                   => t \notin DOMAIN adminSessions']_vars

\* the usage count of the current calendar month: the stored count when
\* the stored month is the current one, otherwise 0
EffectiveCount(u) ==
    IF engineUsage[u].engineUsageResetMonth # GetCurrentMonth THEN 0
    ELSE IF engineUsage[u].engineUsageCount = NoNum THEN 0
    ELSE engineUsage[u].engineUsageCount

PlainUser(u) ==
    /\ ~EngineFlags[u].bannedFromEngine
    /\ ~EngineFlags[u].isSuperAdmin

\* C21: for a user who is neither super-admin nor banned,
\* incrementEngineUsage succeeds iff the effective count of the current
\* month is below MONTHLY_ENGINE_LIMIT; a success stores the effective
\* count plus one with the current month (1 on the first call of a new
\* month), a denial stores nothing.  Whatever steps interleave, every
\* change of a user's usage fields is such a single increment and the
\* stored count stays in 0..MONTHLY_ENGINE_LIMIT.
C21_MonthlyLimit ==
    [][/\ \A t \in DOMAIN userSessions :
             LET u == userSessions[t].userId
             IN  (/\ PlainUser(u)
                  /\ lastResult'.op = "incrementEngineUsage"
                  /\ IncrementEngineUsage(t))
                 => /\ (lastResult'.err = NoStr)
                          <=> (EffectiveCount(u) < MONTHLY_ENGINE_LIMIT)
                    /\ lastResult'.err = NoStr =>
                          engineUsage' = [engineUsage EXCEPT ![u] =
                              [engineUsageCount |-> EffectiveCount(u) + 1,
                               engineUsageResetMonth |-> GetCurrentMonth]]
                    /\ lastResult'.err # NoStr => UNCHANGED engineUsage
       /\ \A u \in Users :
             /\ engineUsage'[u].engineUsageCount
                    \in {NoNum} \cup (0..MONTHLY_ENGINE_LIMIT)
             /\ engineUsage'[u] # engineUsage[u] =>
                   /\ EffectiveCount(u) < MONTHLY_ENGINE_LIMIT
                   /\ engineUsage'[u] =
                         [engineUsageCount |-> EffectiveCount(u) + 1,
                          engineUsageResetMonth |-> GetCurrentMonth]]_vars

\* u1 has made its first call of the second month, which stored count 1
\* with that month
C21_Witness ==
    /\ now >= MonthTurn
    /\ lastResult = Result("incrementEngineUsage", NoStr)
    /\ engineUsage["u1"] = [engineUsageCount |-> 1,
                            engineUsageResetMonth |-> GetCurrentMonth]

BannedError == "You are banned from using the engine."

\* C22: a user with bannedFromEngine is refused by checkEngineAccess and by
\* incrementEngineUsage whatever the stored count and even when the user
\* is a super-admin; a super-admin who is not banned is granted use by
\* both; no step changes the usage fields of a super-admin.
C22_BanBeforeSuperAdmin ==
    [][/\ \A t \in DOMAIN userSessions :
             LET u == userSessions[t].userId
                 Checks == /\ lastResult'.op = "checkEngineAccess"
                           /\ CheckEngineAccess(t)
                 Increments == /\ lastResult'.op = "incrementEngineUsage"
                               /\ IncrementEngineUsage(t)
             IN  /\ EngineFlags[u].bannedFromEngine =>
                       /\ Checks => /\ lastResult'.err = BannedError
                                    /\ ~EngineAccess(t).ok
                                    /\ ~EngineAccess(t).canUse
                       /\ Increments => /\ lastResult'.err = BannedError
                                        /\ UNCHANGED engineUsage
                 /\ (EngineFlags[u].isSuperAdmin
                        /\ ~EngineFlags[u].bannedFromEngine) =>
                       /\ (Checks /\ userSessions[t].expiresAt >= now) =>
                             /\ lastResult'.err = NoStr
                             /\ EngineAccess(t).canUse
                       /\ Increments => lastResult'.err = NoStr
       /\ \A u \in Users :
             EngineFlags[u].isSuperAdmin => engineUsage'[u] = engineUsage[u]]_vars

\* the banned super-admin s1, with uses on record, has been refused
C22_Witness ==
    /\ lastResult = Result("incrementEngineUsage", BannedError)
    /\ EngineFlags["s1"].bannedFromEngine
    /\ EngineFlags["s1"].isSuperAdmin
    /\ engineUsage["s1"].engineUsageCount = MONTHLY_ENGINE_LIMIT - 2
    /\ engineUsage["a1"].engineUsageCount = MONTHLY_ENGINE_LIMIT - 2

C24_StartInsertsOneRunningRow ==
    [][(lastResult'.op = "startTestRun" /\ UNCHANGED <<pc, loc, now>>) =>
          LET new == DOMAIN runs' \ DOMAIN runs
          IN  /\ posts' = posts
              /\ lastResult'.err # NoStr => runs' = runs
              /\ runs' # runs => lastResult'.err = NoStr
              /\ (lastResult'.err = NoStr /\ lastResult' # lastResult) =>
                    runs' # runs
              /\ runs' # runs =>
                    /\ Cardinality(new) = 1
                    /\ DOMAIN runs \subseteq DOMAIN runs'
                    /\ \A r \in DOMAIN runs : runs'[r] = runs[r]
                    /\ \A r \in new :
                          /\ runs'[r].status = "running"
                          /\ runs'[r].startedAt = now
                          /\ runs'[r].move = NoStr
                          /\ runs'[r].passed = NoBool
                          /\ runs'[r].error = NoStr
                          /\ runs'[r].httpStatus = NoNum
                          /\ runs'[r].completedAt = NoNum
                    /\ \A t \in SessionTokens, id \in TestIds,
                          u \in RunBotUrls :
                          StartTestRun(t, id, u) =>
                             /\ ~DeadToken(t)
                             /\ id \in DOMAIN tests
                             /\ \A r \in new :
                                   /\ runs'[r].userId = SessionUser(t)
                                   /\ runs'[r].testId = id
                                   /\ runs'[r].botUrl = u]_vars

\* a run was started, and a later start for the deleted test was refused
C24_Witness ==
    /\ lastResult = Result("startTestRun", "Test not found.")
    /\ \E r \in DOMAIN runs : runs[r].status = "running"

\* the two errors written for a response that was received
NonJsonError(status) == "Non-JSON response (" \o ToString(status) \o ")."
HttpError(status) == "HTTP " \o ToString(status)

\* a response was received and the handling has produced the terminal write
Answered == passOut.status # "none" /\ passIn.resp.net = "ok"

NoResponseErrors ==
    {"Test not found.", "You snake not found in test.",
     "Bot URL is required.", "fetch failed"}

\* C26: a terminal run record holds httpStatus and rawResponse exactly when
\* the invocation that wrote it had received a response from the bot: both
\* are set on a completed run and on the Non-JSON and HTTP failures, both
\* are absent on a failure of the call itself and on the failures found
\* before the call; rawResponse holds at most RAW_LIMIT characters.
C26_ResponseFieldsIffResponse ==
    [][/\ \A r \in DOMAIN runs' :
             (runs' # runs /\ runs'[r].status \in Terminal) =>
                LET run == runs'[r]
                    fromResponse ==
                        \/ run.status = "completed"
                        \/ run.error = NonJsonError(run.httpStatus)
                        \/ run.error = HttpError(run.httpStatus)
                IN  /\ (run.httpStatus # NoNum) <=> (run.rawResponse # NoNum)
                    /\ (run.httpStatus # NoNum) <=> fromResponse
                    /\ run.error \in NoResponseErrors => run.httpStatus = NoNum
                    /\ fromResponse \/ run.error \in NoResponseErrors
                    /\ run.rawResponse <= RAW_LIMIT
       /\ \A p \in Procs :
             /\ \A resp \in RunResponses :
                   (pc[p] = "response" /\ pc'[p] = "write"
                       /\ ExecuteResponse(p, resp)) =>
                      /\ (loc'[p].args.httpStatus # NoNum) <=> (resp.net = "ok")
                      /\ (loc'[p].args.rawResponse # NoNum) <=> (resp.net = "ok")
             /\ (pc[p] = "write" /\ pc'[p] = "returned" /\ ExecuteWrite(p)) =>
                   /\ runs'[loc[p].runId].httpStatus = loc[p].args.httpStatus
                   /\ runs'[loc[p].runId].rawResponse = loc[p].args.rawResponse
             /\ (pc[p] = "getTest" /\ pc'[p] = "write"
                    /\ ExecuteLoadTest(p)) =>
                   /\ loc'[p].args.httpStatus = NoNum
                   /\ loc'[p].args.rawResponse = NoNum]_vars

\* a run failed on a body of 1001 characters that is not JSON: the record
\* keeps the status and the first 1000 characters
C26_Witness ==
    \E r \in DOMAIN runs :
        /\ runs[r].status = "failed"
        /\ runs[r].error = NonJsonError(runs[r].httpStatus)
        /\ runs[r].rawResponse = RAW_LIMIT
        /\ writes[r] = 2

\* C27: updateCollection, deleteCollection, regenerateShareSlug,
\* addTestToCollection and removeTestFromCollection, called with a live
\* session of a user who does not own the collection (an admin included),
\* fail with the permission error and leave the collection row and the
\* membership rows unchanged.
C27_OnlyOwnerMutatesCollection ==
    [][\A t \in LiveTokens, c \in DOMAIN collections :
          collections[c].ownerId # SessionUser(t) =>
             LET Denied(err) == /\ lastResult'.err = err
                                /\ UNCHANGED <<collections, collectionTests>>
                 Called(op, A, err) ==
                     (lastResult'.op = op /\ A) => Denied(err)
             IN  /\ Called("updateCollection",
                           UpdateCollection(t, c, "n2", "d", TRUE), EditDenied)
                 /\ Called("deleteCollection", DeleteCollection(t, c),
                           DeleteDenied)
                 /\ \A sl \in Slugs :
                       Called("regenerateShareSlug",
                              RegenerateShareSlug(t, c, sl), ModifyDenied)
                 /\ \A id \in TestIds :
                       /\ Called("addTestToCollection",
                                 AddTestToCollection(t, c, id), ModifyDenied)
                       /\ Called("removeTestFromCollection",
                                 RemoveTestFromCollection(t, c, id),
                                 ModifyDenied)]_vars

\* a deletion was refused on a collection that holds a test
C27_Witness ==
    /\ lastResult = Result("deleteCollection", DeleteDenied)
    /\ \E c \in DOMAIN collections : RowsOf(c) # {}

\* C28: addTestToCollection inserts a membership row only if, at the time
\* of the call, the test is owned by the caller or has status approved,
\* and then it inserts one row, of that collection and test; for a test of
\* somebody else that is pending, rejected, private or without a status it
\* fails and inserts nothing.
C28_AddOnlyOwnOrApproved ==
    [][\A t \in CollTokens, c \in CollectionIds, id \in TestIds :
          (lastResult'.op = "addTestToCollection"
              /\ AddTestToCollection(t, c, id)) =>
             LET addable == /\ id \in DOMAIN tests
                            /\ \/ tests[id].ownerId = SessionUser(t)
                               \/ tests[id].status = "approved"
             IN  /\ collectionTests' # collectionTests =>
                       /\ addable
                       /\ lastResult'.err = NoStr
                       /\ Row(c, id) \notin DOMAIN collectionTests
                       /\ collectionTests' =
                             Insert(collectionTests, Row(c, id), 1)
                 /\ lastResult'.err = NoStr =>
                       collectionTests' # collectionTests
                 /\ ~addable => /\ lastResult'.err # NoStr
                                /\ UNCHANGED collectionTests]_vars

\* u1 was refused the test of u2 that is not approved, and holds no row
C28_Witness ==
    /\ lastResult = Result("addTestToCollection", TestNotAddable)
    /\ 1 \in DOMAIN tests
    /\ tests[1].ownerId = "u2"
    /\ tests[1].status = "pending"
    /\ collectionTests = EmptyTable
    /\ DOMAIN collections # {}

\* C29: the store never holds two collectionTests rows of one
\* (collectionId, testId) pair, whatever the sequence of
\* addTestToCollection and removeTestFromCollection; adding a test that is
\* in the collection fails and changes nothing.
C29_OneRowPerPair ==
    [][/\ \A row \in DOMAIN collectionTests' : collectionTests'[row] = 1
       /\ \A t \in CollTokens, c \in CollectionIds, id \in TestIds :
             (/\ lastResult'.op = "addTestToCollection"
              /\ AddTestToCollection(t, c, id)
              /\ Row(c, id) \in DOMAIN collectionTests)
             => /\ lastResult'.err # NoStr
                /\ UNCHANGED <<collections, collectionTests, tests>>]_vars

\* the add of a test that is in the collection was refused
C29_Witness ==
    /\ lastResult = Result("addTestToCollection", AlreadyInCollection)
    /\ RowCount = 1

\* C30: after a successful deletion of a test, by deleteUserTest or by
\* deleteTest with an admin session, no collectionTests row references the
\* deleted test.
C30_NoRowOfDeletedTest ==
    [][\A id \in DOMAIN tests :
          (/\ lastResult'.op \in {"deleteUserTest", "deleteTest"}
           /\ lastResult'.err = NoStr
           /\ id \notin DOMAIN tests')
          => \A row \in DOMAIN collectionTests' : row.testId # id]_vars

\* C31: executeTestRun called with a run id that does not exist, or with a
\* run that is completed or failed, returns an error, issues no POST and
\* leaves every testRuns row unchanged: the invocation goes from the guard
\* straight to its return.
C31_GuardRefusesWithoutEffect ==
    [][\A p \in Procs :
          /\ \A r \in RunIds :
                (/\ pc[p] = "idle"
                 /\ pc'[p] # "idle"
                 /\ ExecuteGuard(p, r)
                 /\ (r \notin DOMAIN runs \/ runs[r].status \in Terminal))
                => /\ pc'[p] = "returned"
                   /\ loc'[p].error \in {"Test run not found.",
                                         "Test run is not in running state."}
                   /\ ~loc'[p].guardPassed
                   /\ UNCHANGED <<runs, posts, writes>>
          /\ (pc[p] = "returned" /\ ~loc[p].guardPassed /\ pc'[p] # pc[p])
                => /\ pc'[p] = "idle"
                   /\ UNCHANGED <<runs, posts, writes>>]_vars

\* an invocation was refused on a run that had ended
C31_Witness ==
    \E p \in Procs :
        /\ pc[p] = "returned"
        /\ ~loc[p].guardPassed
        /\ loc[p].error = "Test run is not in running state."
        /\ runs[loc[p].runId].status \in Terminal

\* the test of run r was deleted before any invocation of executeTestRun
\* loaded it: no POST has left, no invocation holds the test, and the run
\* is running or has been failed for the missing test
TestGoneBeforeExecute(r) ==
    /\ r \in DOMAIN runs
    /\ runs[r].testId \notin DOMAIN tests
    /\ posts[r] = 0
    /\ \A p \in Procs :
          loc[p].runId = r =>
             \/ pc[p] \in {"getTest", "returned"}
             \/ pc[p] = "write" /\ loc[p].args = FailedArgs("Test not found.")
    /\ \/ runs[r].status = "running"
       \/ runs[r].status = "failed" /\ runs[r].error = "Test not found."

\* C32: when the test of a run is deleted after startTestRun and before
\* executeTestRun loads it, no POST is issued for the run and the only
\* terminal state written is failed with error "Test not found."; an
\* invocation that has passed the guard of such a run does end it.
C32_DeletedTestFailsRun ==
    /\ [][\A r \in RunIds :
             TestGoneBeforeExecute(r) => TestGoneBeforeExecute(r)']_vars
    /\ \A r \in RunIds :
          (TestGoneBeforeExecute(r)
              /\ \E p \in Procs : pc[p] = "getTest" /\ loc[p].runId = r)
          ~> (/\ r \in DOMAIN runs
              /\ runs[r].status = "failed"
              /\ runs[r].error = "Test not found."
              /\ posts[r] = 0)

\* the run of a deleted test has been failed, without a POST
C32_Witness ==
    \E r \in RunIds :
        /\ TestGoneBeforeExecute(r)
        /\ runs[r].status = "failed"
        /\ runs[r].error = "Test not found."
        /\ runs[r].httpStatus = NoNum
        /\ writes[r] = 1

\* the limiter row of the clientId holds a blockedUntil later than now
BlockedNow(clientId) ==
    /\ clientId \in DOMAIN adminRateLimits
    /\ adminRateLimits[clientId].blockedUntil # NoNum
    /\ adminRateLimits[clientId].blockedUntil > now

\* C33: while a clientId is blocked (blockedUntil > now), a login attempt,
\* whatever its credentials, leaves the limiter row of that clientId
\* (windowStart, attempts, blockedUntil) as it was: the attempt neither
\* raises the count nor extends the block.
C33_BlockedLoginLeavesLimiter ==
    [][\A c \in Clients :
          (/\ lastResult'.op = "login"
           /\ BlockedNow(c)
           /\ \E e \in Emails, p \in Passwords : Login(e, p, c))
          => /\ c \in DOMAIN adminRateLimits'
             /\ adminRateLimits'[c].windowStart = adminRateLimits[c].windowStart
             /\ adminRateLimits'[c].attempts = adminRateLimits[c].attempts
             /\ adminRateLimits'[c].blockedUntil
                    = adminRateLimits[c].blockedUntil]_vars

\* a login refused at minute 3 while the block set at minute 1 is pending
C33_Witness ==
    /\ lastResult = Result("login", "Too many attempts. Try again later.")
    /\ BlockedNow("c1")
    /\ now = 3
    /\ adminRateLimits["c1"].windowStart = 1
    /\ adminRateLimits["c1"].blockedUntil = 1 + RATE_LIMIT_WINDOW_MS

\* the clientId has a limiter row whose window has not run out
WindowOpen(clientId) ==
    /\ clientId \in DOMAIN adminRateLimits
    /\ now - adminRateLimits[clientId].windowStart < RATE_LIMIT_WINDOW_MS

\* C34: a login that fails on its credentials, from a clientId with no
\* limiter row or whose window has run out (now - windowStart >= 5
\* minutes), starts a fresh window with windowStart = now and attempts = 1;
\* one that fails inside the window keeps windowStart and raises attempts by
\* exactly 1.
C34_FailedLoginCounts ==
    [][\A c \in Clients :
          (/\ lastResult' = Result("login", "Invalid email or password.")
           /\ \E e \in Emails, p \in Passwords : Login(e, p, c))
          => /\ c \in DOMAIN adminRateLimits'
             /\ IF WindowOpen(c)
                THEN /\ adminRateLimits'[c].windowStart
                           = adminRateLimits[c].windowStart
                     /\ adminRateLimits'[c].attempts
                           = adminRateLimits[c].attempts + 1
                ELSE /\ adminRateLimits'[c].windowStart = now
                     /\ adminRateLimits'[c].attempts = 1]_vars

\* a failure recorded exactly 5 minutes after the window opened, which
\* held 2 attempts: the count restarts
C34_Witness ==
    /\ lastResult = Result("login", "Invalid email or password.")
    /\ failLog["c1"] = <<1, 1, 1 + RATE_LIMIT_WINDOW_MS>>
    /\ now = 1 + RATE_LIMIT_WINDOW_MS
    /\ adminRateLimits["c1"].windowStart = now
    /\ adminRateLimits["c1"].attempts = 1

\* the row is consistent: a count within 0..5, blocked exactly at 5
LimiterRowOk(row) ==
    /\ row.attempts >= 0
    /\ row.attempts <= RATE_LIMIT_MAX_ATTEMPTS
    /\ (row.blockedUntil # NoNum) <=> (row.attempts = RATE_LIMIT_MAX_ATTEMPTS)

\* a sign-in attempt of the clientId, at either gate, rejected for its
\* credentials
AttemptFails(c) ==
    \/ /\ lastResult' = Result("login", "Invalid email or password.")
       /\ \E e \in Emails, p \in Passwords : Login(e, p, c)
    \/ /\ lastResult'.op = "verifyAdminPassword"
       /\ lastResult'.err \notin {NoStr, "Too many attempts. Try again later."}
       /\ \E p \in AdminPasswords, x \in AdminEnv : VerifyAdminPassword(p, x, c)

\* C39: in every reachable state each limiter row has 0 <= attempts <= 5
\* and holds a blockedUntil exactly when attempts = 5; and the first failed
\* attempt after a block has run out (now >= blockedUntil) starts a fresh
\* window with attempts = 1 and sets no new block.
C39_LimiterRowShape ==
    /\ [](\A c \in DOMAIN adminRateLimits : LimiterRowOk(adminRateLimits[c]))
    /\ [][\A c \in Clients :
             (/\ c \in DOMAIN adminRateLimits
              /\ adminRateLimits[c].blockedUntil # NoNum
              /\ now >= adminRateLimits[c].blockedUntil
              /\ AttemptFails(c))
             => /\ adminRateLimits'[c].attempts = 1
                /\ adminRateLimits'[c].windowStart = now
                /\ adminRateLimits'[c].blockedUntil = NoNum]_vars

\* the admin gate has just counted a first failure at the minute the block
\* of five failed logins ran out
C39_Witness ==
    /\ lastResult = Result("verifyAdminPassword", "Invalid admin password.")
    /\ failLog["c1"] = <<1, 1, 1, 1, 1 + RATE_LIMIT_WINDOW_MS>>
    /\ now = 1 + RATE_LIMIT_WINDOW_MS
    /\ adminRateLimits["c1"] =
          [windowStart |-> now, attempts |-> 1, blockedUntil |-> NoNum]

\* what each gate answers to a token that has no session
SessionInvalid(token) ==
    /\ RequireUserSession(token).err = "Session invalid. Please log in again."
    /\ EngineAccess(token).error = "Session invalid."
    /\ IncrementOutcome(token).err = "Session invalid."
    /\ IncrementOutcome(token).usage = engineUsage

\* C35: once logout(token) has deleted the session of a token, every later
\* operation that presents the token is refused as session-invalid
\* (getCurrentUser answers null) and changes nothing, for ever: no session
\* is ever stored under that token again.  logout of a token that has no
\* session answers ok and changes no table.
C35_LoggedOutTokenStaysDead ==
    /\ [](\A t \in loggedOut : t \notin DOMAIN userSessions /\ SessionInvalid(t))
    /\ [][/\ loggedOut \subseteq loggedOut'
          /\ \A t \in loggedOut :
                /\ (lastResult'.op = "getCurrentUser" /\ GetCurrentUser(t))
                      => lastResult'.err = "null"
                /\ (lastResult'.op = "checkEngineAccess" /\ CheckEngineAccess(t))
                      => lastResult'.err = "Session invalid."
                /\ (lastResult'.op = "incrementEngineUsage"
                       /\ IncrementEngineUsage(t))
                      => lastResult'.err = "Session invalid." /\ store' = store
                /\ (/\ lastResult'.op = "startTestRun"
                    /\ \E id \in TestIds : StartTestRun(t, id, <<"m", "/">>))
                      => /\ lastResult'.err
                               = "Session invalid. Please log in again."
                         /\ store' = store
          /\ \A t \in LogoutTokens :
                (/\ lastResult'.op = "logout"
                 /\ t \notin DOMAIN userSessions
                 /\ Logout(t))
                => /\ lastResult'.err = NoStr
                   /\ store' = store
                   /\ loggedOut' = loggedOut]_vars

\* the token issued by a login has been logged out, and the run it then
\* asked for was refused
C35_Witness ==
    /\ LoginTokens[1] \in loggedOut
    /\ "tok_u1" \in DOMAIN userSessions
    /\ lastResult = Result("startTestRun",
                           "Session invalid. Please log in again.")
    /\ now = 3

\* C36: read by share slug without a session, getCollectionBySlug returns a
\* collection only if a collection with that slug exists and is public; a
\* private collection is never returned, so once its owner has set
\* isPublic to false its slug gives no access to it or, through it, to its
\* tests.
C36_SlugReadsOnlyPublic ==
    /\ [](\A sl \in Slugs :
            LET got == CollectionBySlug(sl)
            IN  IF got.collection = NoNum
                THEN got.tests = {}
                ELSE /\ got.collection \in DOMAIN collections
                     /\ collections[got.collection].shareSlug = sl
                     /\ collections[got.collection].isPublic)
    /\ [][\A id \in CollectionIds :
             (/\ lastResult' = Result("updateCollection", NoStr)
              /\ UpdateCollection("tok_u1", id, "n1", NoStr, FALSE))
             => LET got == CollectionBySlug(collections[id].shareSlug)'
                IN  /\ got.collection # id
                    /\ got.collection = NoNum => got.tests = {}]_vars
    /\ [][\A sl \in Slugs :
             (lastResult'.op = "getCollectionBySlug" /\ GetCollectionBySlug(sl))
             => /\ lastResult'.err = "null" <=>
                      \A c \in DOMAIN collections :
                         collections[c].shareSlug = sl =>
                            \/ ~collections[c].isPublic
                            \/ \E d \in DOMAIN collections :
                                  /\ d < c
                                  /\ collections[d].shareSlug = sl
                /\ lastResult'.err = "null" => lastResult'.rows = {}]_vars

\* the slug of a collection that holds a test and was made private has
\* just been read: null
C36_Witness ==
    /\ lastResult = [op |-> "getCollectionBySlug", err |-> "null", rows |-> {}]
    /\ 1 \in DOMAIN collections
    /\ ~collections[1].isPublic
    /\ Matching(1, 1)
    /\ \A c \in DOMAIN collections : c # 1 => collections[c].shareSlug
                                                 # collections[1].shareSlug

\* the queries that take no session token
AnonymousQueries ==
    {"listTests", "getTest", "listPublicTests", "getCollectionBySlug"}

\* C37: no query that can be called without a session (listTests, getTest,
\* listPublicTests, getCollectionBySlug) returns a test whose status is
\* pending, rejected or private.
C37_AnonymousReadsOnlyApproved ==
    lastResult.op \in AnonymousQueries =>
        \A id \in lastResult.rows :
            tests[id].status \notin {"pending", "rejected", "private"}

\* C38: checkEngineAccess and incrementEngineUsage agree: for every token,
\* user record and clock value, checkEngineAccess reports canUse = true
\* exactly when incrementEngineUsage, called with the same token at the
\* same instant, returns ok.
C38_CheckAgreesWithIncrement ==
    \A t \in SessionTokens :
        EngineAccess(t).canUse <=> (IncrementOutcome(t).err = NoStr)

\* the shape of one testRuns row
RunShapeOk(run) ==
    /\ run.status \in {"running", "completed", "failed"}
    /\ (run.status = "running") <=> (run.completedAt = NoNum)
    /\ run.status = "completed" => run.passed # NoBool /\ run.error = NoStr
    /\ run.status = "failed" =>
          run.error # NoStr /\ run.passed = NoBool /\ run.move = NoStr

\* C40: in every reachable state each testRuns row has a consistent shape:
\* status = running exactly when completedAt is absent; a completed row
\* has passed set and no error; a failed row has error set and neither
\* passed nor move; and the terminal write never changes testId, userId,
\* botUrl or startedAt.
C40_RunRowShape ==
    /\ [](\A r \in DOMAIN runs : RunShapeOk(runs[r]))
    /\ [][\A p \in Procs :
             (pc[p] = "write" /\ pc'[p] = "returned" /\ ExecuteWrite(p)) =>
                LET r == loc[p].runId
                IN  /\ runs'[r].testId = runs[r].testId
                    /\ runs'[r].userId = runs[r].userId
                    /\ runs'[r].botUrl = runs[r].botUrl
                    /\ runs'[r].startedAt = runs[r].startedAt
                    /\ runs'[r].status \in {"completed", "failed"}
                    /\ \A q \in DOMAIN runs \ {r} : runs'[q] = runs[q]]_vars

\* a row completed by one invocation and then failed by a second one: the
\* second write removed move and passed
C40_Witness ==
    \E r \in DOMAIN runs :
        /\ writes[r] = 2
        /\ runs[r].status = "failed"
        /\ runs[r].error = "fetch failed"
        /\ runs[r].move = NoStr
        /\ runs[r].passed = NoBool
        /\ runs[r].completedAt # NoNum

====
